---- MODULE Spec2Model ----
(***************************************************************************)
(* A model of the record substrate of journey_binder: the JourneyObject    *)
(* base class of src/content/joe/model/base.py (type decomposition, value  *)
(* coercion, validation, consolidation, JSON encoding) together with the   *)
(* record types of the joe.model package that exercise it.                 *)
(*                                                                         *)
(* Python values are tagged records, record instances live in a heap and   *)
(* are named by their address, so that "the identical instance" is         *)
(* equality of addresses and "structurally equal" is the program's ==.     *)
(***************************************************************************)
EXTENDS Integers, Sequences, FiniteSets, TLC

VARIABLES heap, registry, calls, last, threads

vars == <<heap, registry, calls, last, threads>>

(***************************************************************************)
(* Bounds of the model.                                                    *)
(***************************************************************************)
\* number of top-level calls (constructions, decodes) in one process
MaxCalls == 2
\* number of threads that construct records at the same time
NumThreads == 2

(***************************************************************************)
(* Python values.  A float is held in thousandths (FloatScale), so that    *)
(* 0.001 is FltV(1), 1.5 is FltV(1500) and float(3) is FltV(3000).            *)
(***************************************************************************)
FloatScale == 1000

None_ == [k |-> "none"]
BoolV(b) == [k |-> "bool", b |-> b]
IntV(n) == [k |-> "int", n |-> n]
FltV(x) == [k |-> "float", x |-> x]
StrV(s) == [k |-> "str", s |-> s]
\* a str holding a JSON document, the result of json.dumps(doc)
JsonStr(doc) == [k |-> "jsonstr", doc |-> doc]
List(e) == [k |-> "list", e |-> e]
Tup(e) == [k |-> "tuple", e |-> e]
\* a dict is its items in insertion order
Dict(d) == [k |-> "dict", d |-> d]
Item(key, val) == [key |-> key, val |-> val]
Dt(t) == [k |-> "datetime", t |-> t]
Enm(e, name) == [k |-> "enum", enum |-> e, name |-> name]
Obj(ref) == [k |-> "obj", ref |-> ref]

IsStr(v) == v.k \in {"str", "jsonstr"}
\* case int(): matches bool values too, bool being a subclass of int
IsInt(v) == v.k \in {"int", "bool"}
IsNum(v) == v.k \in {"int", "bool", "float"}
IntOf(v) == IF v.k = "bool" THEN (IF v.b THEN 1 ELSE 0) ELSE v.n
\* the numeric value of a bool, int or float, in thousandths
NumOf(v) == IF v.k = "float" THEN v.x ELSE IntOf(v) * FloatScale

(***************************************************************************)
(* Declared field types (typing expressions).                              *)
(***************************************************************************)
Prim(p) == [t |-> "prim", p |-> p]
T_bool == Prim("bool")
T_int == Prim("int")
T_float == Prim("float")
T_str == Prim("str")
T_datetime == Prim("datetime")
T_none == Prim("NoneType")
\* the bare, unparameterized containers
T_list == Prim("list")
T_tuple == Prim("tuple")
T_dict == Prim("dict")
TEnum(e) == [t |-> "enum", e |-> e]
TRec(c) == [t |-> "rec", c |-> c]
TList(a) == [t |-> "list[]", args |-> <<a>>]
TTuple(args) == [t |-> "tuple[]", args |-> args]
TDict(key, val) == [t |-> "dict[]", args |-> <<key, val>>]
TUnion(args) == [t |-> "union", args |-> args]
Optional(a) == TUnion(<<a, T_none>>)

InTypes(ty, types) == \E i \in 1..Len(types) : types[i] = ty

(***************************************************************************)
(* The Enum classes: members in declaration order, each a name (label) and *)
(* a value.  _value2member_map_ is keyed by the values.                    *)
(***************************************************************************)
Member(name, value) == [name |-> name, value |-> value]

EnumMembers(e) ==
  CASE e = "GravityModel" ->
         << Member("EIGEN6S", "EIGEN-6S"), Member("GGM02C", "GGM02C"),
            Member("GGM03S", "GGM03S"), Member("GGM03C", "GGM03C") >>
    [] e = "AtmosphericModel" ->
         << Member("OFF", "Off"), Member("NRLMSISE00", "NRLMSISE-00"),
            Member("JB2008", "JB2008"), Member("HARRISPRIESTER", "Harris-Priester") >>
    [] e = "ThirdBodyModel" ->
         << Member("NONE", "None"), Member("SUNMOON", "sunmoon"), Member("ALL", "all") >>
    [] e = "Algorithm" ->
         << Member("RK45", "RK45"), Member("DOP853", "DOP853") >>
    [] e = "AveragingMethod" ->
         << Member("DSST", "DSST"), Member("NONE", "None") >>
    [] e = "State" ->
         << Member("SUCCESS", "success"), Member("TERMINATED", "terminated"),
            Member("RUNNING", "running"), Member("FAILED", "failed") >>
    [] e = "ManeuverType" ->
         << Member("ANALYTICAL", "analytical"), Member("MAINTENANCE", "maintenance"),
            Member("DRIFT", "drift"), Member("DEORBIT", "deorbit"), Member("PHASE", "phase") >>
    [] e = "PropulsionType" ->
         << Member("HYDRAZINE", "Hydrazine"), Member("HPGP", "HPGP"),
            Member("IONTHRUSTER", "Ion Thruster"), Member("HALLEFFECT", "Hall Effect"),
            Member("CUSTOM", "Custom") >>

EnumClasses ==
  <<"GravityModel", "AtmosphericModel", "ThirdBodyModel", "Algorithm",
    "AveragingMethod", "State", "ManeuverType", "PropulsionType">>

\* inbound_var in E._value2member_map_
InValueMap(e, s) == \E i \in 1..Len(EnumMembers(e)) : EnumMembers(e)[i].value = s
\* a faulty lookup that answers with the first member whatever the text
FirstMember(e, s) == Enm(e, EnumMembers(e)[1].name)
\* E._value2member_map_[inbound_var]
ValueToMember(e, s) ==
  LET i == CHOOSE j \in 1..Len(EnumMembers(e)) : EnumMembers(e)[j].value = s
  IN  Enm(e, EnumMembers(e)[i].name)
\* member.value
MemberValue(m) ==
  LET i == CHOOSE j \in 1..Len(EnumMembers(m.enum)) : EnumMembers(m.enum)[j].name = m.name
  IN  EnumMembers(m.enum)[i].value
IsLabel(e, s) == \E i \in 1..Len(EnumMembers(e)) : EnumMembers(e)[i].name = s

(***************************************************************************)
(* The record types (dataclasses deriving from JourneyObject): their       *)
(* fields in dataclass order, the three base fields first.                 *)
(***************************************************************************)
NoDefault == [k |-> "nodefault"]
Fld(name, type) == [name |-> name, type |-> type, default |-> NoDefault]
FldD(name, type, default) == [name |-> name, type |-> type, default |-> default]

BaseFields ==
  << Fld("id", T_str), Fld("creation_date", T_datetime), Fld("update_date", T_datetime) >>

Classes ==
  <<"Company", "Mission", "RequestForInformation", "Orbit", "Attitude",
    "Target", "Physics", "Propagator", "Status", "PropagationResult",
    "GroundStation", "Maneuver", "Satellite", "Bus", "Propulsion", "Payload",
    "SolarPanel", "Battery", "PowerBudget", "PropagationTicket">>

\* JourneyObject.__subclasses__()
IsSubclass(ty) == ty.t = "rec" /\ \E i \in 1..Len(Classes) : Classes[i] = ty.c

OwnFields(c) ==
  CASE c = "Company" -> << Fld("name", T_str) >>
    [] c = "Mission" ->
         << Fld("created_by", TRec("Company")), Fld("name", T_str),
            Fld("launch_date", T_datetime), Fld("amd_enabled", T_bool) >>
    [] c = "RequestForInformation" ->
         << Fld("created_by", TRec("Company")), Fld("mission", TRec("Mission")),
            Fld("request", T_str) >>
    [] c = "Orbit" ->
         << Fld("semi_major_axis", Optional(T_float)), Fld("eccentricity", Optional(T_float)),
            Fld("inclination", Optional(T_float)), Fld("argument_of_perigee", Optional(T_float)),
            Fld("raan", Optional(T_float)), Fld("true_anomaly", Optional(T_float)) >>
    [] c = "Attitude" ->
         << Fld("quaternions", TList(T_float)), Fld("spin", TList(T_float)),
            Fld("acceleration", TList(T_float)) >>
    [] c = "Target" ->
         << Fld("mission", TRec("Mission")), Fld("name", T_str), Fld("latitude", T_float),
            Fld("longitude", T_float), Fld("minimum_elevation", T_float),
            Fld("altitude", T_float), Fld("shapefile", Optional(T_str)) >>
    [] c = "Physics" ->
         << Fld("mission", TRec("Mission")), Fld("start_time", T_datetime),
            Fld("gravity_model", TEnum("GravityModel")),
            Fld("atmospheric_model", TEnum("AtmosphericModel")),
            Fld("third_body_model", TEnum("ThirdBodyModel")),
            Fld("solar_radiation_model", T_bool), Fld("harmonic_degree", T_int),
            Fld("harmonic_order", T_int) >>
    [] c = "Propagator" ->
         << FldD("algorithm", TEnum("Algorithm"), Enm("Algorithm", "DOP853")),
            FldD("averaging", TEnum("AveragingMethod"), Enm("AveragingMethod", "NONE")),
            FldD("min_step", Optional(T_float), None_),
            FldD("max_step", Optional(T_float), None_),
            FldD("first_step", Optional(T_float), None_),
            FldD("tolerances", TTuple(<<T_float, Optional(T_float)>>), Tup(<<FltV(1), None_>>)) >>
    [] c = "Status" ->
         << Fld("percentage_completion", T_float), Fld("computation_state", TEnum("State")),
            Fld("message", T_str), Fld("information", T_dict) >>
    [] c = "PropagationResult" ->
         << Fld("timestamps", TList(T_datetime)), Fld("orbits", TList(TRec("Orbit"))),
            Fld("masses", TList(T_float)), Fld("attitudes", TList(TRec("Attitude"))),
            Fld("lighting_ratios", TList(T_float)),
            Fld("thrust_directions", TList(TList(T_float))),
            Fld("thrust_magnitudes", TList(T_float)), Fld("delta_v", TList(T_float)),
            Fld("total_impulse", TList(T_float)), Fld("groundstation_events", TList(T_dict)),
            Fld("target_events", TList(T_dict)) >>
    [] c = "GroundStation" ->
         << Fld("mission", TRec("Mission")), Fld("name", T_str), Fld("latitude", T_float),
            Fld("longitude", T_float), Fld("minimum_elevation", T_float),
            Fld("altitude", T_float), Fld("provider", T_str) >>
    [] c = "Maneuver" ->
         << Fld("mission", TRec("Mission")), Fld("maneuver_type", TEnum("ManeuverType")),
            Fld("final_orbit", TRec("Orbit")), Fld("name", T_str), Fld("optimize", T_bool),
            Fld("duration", T_float), Fld("sequence_number", T_int) >>
    [] c = "Satellite" -> << Fld("mission", TRec("Mission")), Fld("name", T_str) >>
    [] c = "Bus" ->
         << Fld("satellite", TRec("Satellite")), Fld("size", T_str), Fld("length", T_float),
            Fld("width", T_float), Fld("height", T_float), Fld("mass", T_float),
            FldD("drag", T_float, FltV(2200)), FldD("reflectivity", T_float, FltV(900)) >>
    [] c = "Propulsion" ->
         << Fld("satellite", TRec("Satellite")), Fld("type", TEnum("PropulsionType")),
            Fld("prop_mass", T_float), Fld("isp", TList(T_float)),
            Fld("thrust", TList(T_float)) >>
    [] c = "Payload" ->
         << Fld("satellite", TRec("Satellite")), Fld("fov_cross", T_float),
            Fld("fov_along", T_float) >>
    [] c = "SolarPanel" ->
         << Fld("satellite", TRec("Satellite")), Fld("mount_type", T_str),
            Fld("cell_efficiency", T_float), Fld("surface_area", T_float),
            Fld("voltage", T_float) >>
    [] c = "Battery" ->
         << Fld("satellite", TRec("Satellite")), Fld("voltage", T_float),
            Fld("capacity", T_float), Fld("maximum_discharge_rate", T_float),
            Fld("recommended_discharge_rate", T_float) >>
    [] c = "PowerBudget" -> << Fld("satellite", TRec("Satellite")), Fld("budget", T_dict) >>
    [] c = "PropagationTicket" ->
         << Fld("start_time", T_datetime), Fld("initial_orbit", TRec("Orbit")),
            Fld("maneuver", TRec("Maneuver")), Fld("physics", TRec("Physics")),
            Fld("groundstations", TList(TRec("GroundStation"))),
            Fld("targets", TList(TRec("Target"))),
            Fld("propagator", TRec("Propagator")), Fld("status", TRec("Status")),
            Fld("satellite", TRec("Satellite")), Fld("bus", TRec("Bus")),
            FldD("attitude", Optional(TRec("Attitude")), None_),
            FldD("propulsion", Optional(TRec("Propulsion")), None_),
            FldD("solarpanel", Optional(TRec("SolarPanel")), None_),
            FldD("battery", Optional(TRec("Battery")), None_),
            FldD("powerbudget", Optional(TRec("PowerBudget")), None_),
            FldD("payload", Optional(TRec("Payload")), None_) >>

\* dataclasses.fields(cls)
Fields(c) == BaseFields \o OwnFields(c)

FieldIndex(c, name) == CHOOSE i \in 1..Len(Fields(c)) : Fields(c)[i].name = name
HasField(c, name) == \E i \in 1..Len(Fields(c)) : Fields(c)[i].name = name
\* getattr(self, name), on the heap h
GetAttr(h, ref, name) == h[ref].f[FieldIndex(h[ref].cls, name)]

(***************************************************************************)
(* The state a call works on: the heap of record instances, the registry   *)
(* (the default argument all_joe_objs of consolidate_family_tree, one list *)
(* for the whole process), the warnings emitted and the invariant checks   *)
(* executed so far.  A step of the engine returns a value or raises, and   *)
(* in both cases leaves a state behind.                                    *)
(***************************************************************************)
NoErr == [kind |-> "none", exc |-> "none", varname |-> <<>>, what |-> None_, tried |-> <<>>]
Err(kind, exc, varname, what) ==
  [kind |-> kind, exc |-> exc, varname |-> varname, what |-> what, tried |-> <<>>]
\* JourneyUserInputException(varname, message)
JourneyUserInputException(kind, varname, what) ==
  Err(kind, "JourneyUserInputException", varname, what)

Ok(val, st) == [ok |-> TRUE, val |-> val, err |-> NoErr, st |-> st]
Fail(err, st) == [ok |-> FALSE, val |-> None_, err |-> err, st |-> st]

\* varname + '_' + str(i)
IndexNames == <<"_0", "_1", "_2", "_3", "_4", "_5">>
ElemName(varname, i) == Append(varname, IndexNames[i])

\* decompose_type: the container and the accepted element types of a declared type
decompose_type(ty) ==
  CASE ty.t = "list[]" -> [ext |-> "list", types |-> ty.args]
    [] ty.t = "tuple[]" -> [ext |-> "tuple", types |-> ty.args]
    [] ty.t = "dict[]" -> [ext |-> "dict", types |-> ty.args]
    [] ty.t = "union" -> [ext |-> "none", types |-> ty.args]
    [] OTHER ->
         IF ty = T_list THEN [ext |-> "list", types |-> <<>>]
         ELSE IF ty = T_tuple THEN [ext |-> "tuple", types |-> <<>>]
         ELSE IF ty = T_dict THEN [ext |-> "dict", types |-> <<>>]
         ELSE [ext |-> "none", types |-> <<ty>>]

\* is_optional
is_optional(ty) == ty.t = "union" /\ InTypes(T_none, ty.args)

\* outtype(var), for the two casts _warncast is asked for
Cast(v, outtype) ==
  IF outtype = "float" THEN FltV(IntOf(v) * FloatScale) ELSE BoolV(IntOf(v) # 0)

\* a faulty _warncast that converts without a warning
castsilently(varname, v, intype, outtype, st) == Ok(Cast(v, outtype), st)

\* _warncast: warn, then convert
warncast(varname, v, intype, outtype, st) ==
  Ok(Cast(v, outtype),
     [st EXCEPT !.warns = Append(@, [varname |-> varname, from |-> intype, to |-> outtype])])

(***************************************************************************)
(* datetime.fromisoformat and datetime.isoformat over the texts the model  *)
(* uses: a timestamp is a number, its ISO text is looked up.  A date-only  *)
(* text parses to midnight, which formats with the time part.              *)
(***************************************************************************)
IsoTexts ==
  << [text |-> "2024-04-04T20:49:02", t |-> 1], [text |-> "2027-04-04T20:49:02", t |-> 2],
     [text |-> "2024-04-04T00:00:00", t |-> 3], [text |-> "2024-04-04", t |-> 3] >>
IsIsoText(s) == \E i \in 1..Len(IsoTexts) : IsoTexts[i].text = s
fromisoformat(s) ==
  Dt(IsoTexts[CHOOSE i \in 1..Len(IsoTexts) : IsoTexts[i].text = s].t)
isoformat(d) ==
  LET first == CHOOSE i \in 1..Len(IsoTexts) :
                 /\ IsoTexts[i].t = d.t
                 /\ \A j \in 1..(i - 1) : IsoTexts[j].t # d.t
  IN  StrV(IsoTexts[first].text)

\* a faulty isinstance that recognises nothing
IsInstanceOfNone(h, v, ty) == FALSE

\* isinstance(inbound_var, (ty,)) for a plain class ty
IsInstance(h, v, ty) ==
  CASE ty.t = "prim" ->
         (CASE ty.p = "NoneType" -> v.k = "none"
            [] ty.p = "bool" -> v.k = "bool"
            [] ty.p = "int" -> IsInt(v)
            [] ty.p = "float" -> v.k = "float"
            [] ty.p = "str" -> IsStr(v)
            [] OTHER -> v.k = ty.p)
    [] ty.t = "enum" -> v.k = "enum" /\ v.enum = ty.e
    [] ty.t = "rec" -> v.k = "obj" /\ h[v.ref].cls = ty.c
    [] OTHER -> FALSE

(***************************************************************************)
(* The invariant checks: the validate_* methods of the record types, in    *)
(* the order they are declared in the class body.  A check passes, fails   *)
(* its assert, or raises (a comparison of a number with a non-number).     *)
(***************************************************************************)
Validators(c) ==
  CASE c = "Orbit" ->
         <<"validate_eccentricity", "validate_inclination", "validate_true_anomaly",
           "validate_argument_of_perigee">>
    [] c = "Physics" ->
         <<"validate_gravity_model", "validate_atmospheric_model", "validate_third_body",
           "validate_harmonic_degree", "validate_harmonic_order">>
    [] c = "Propagator" -> <<"validate_steps", "validate_tolerances">>
    [] c = "Status" -> <<"validate_percentage">>
    [] c \in {"Payload", "SolarPanel", "Battery"} -> <<"validate_positive_values">>
    [] OTHER -> <<>>

\* the attribute names of the model's classes that start with validate_, sorted as
\* str sorts them: dir() returns the names of an object in this order
SortedNames ==
  <<"validate_argument_of_perigee", "validate_atmospheric_model", "validate_eccentricity",
    "validate_gravity_model", "validate_harmonic_degree", "validate_harmonic_order",
    "validate_inclination", "validate_percentage", "validate_positive_values",
    "validate_steps", "validate_third_body",
    "validate_tolerances", "validate_true_anomaly">>

InSeq(x, q) == \E i \in 1..Len(q) : q[i] = x
PosIn(x, q) == CHOOSE i \in 1..Len(q) : q[i] = x

\* a <= b on Python values
NumLe(a, b) ==
  IF ~IsNum(a) \/ ~IsNum(b) THEN "raise"
  ELSE IF NumOf(a) <= NumOf(b) THEN "pass" ELSE "fail"
\* a < b on Python values
NumLt(a, b) ==
  IF ~IsNum(a) \/ ~IsNum(b) THEN "raise"
  ELSE IF NumOf(a) < NumOf(b) THEN "pass" ELSE "fail"
\* the second operand is evaluated only when the first passed
AndThen(o1, o2) == IF o1 = "pass" THEN o2 ELSE o1
\* a faulty range check that excludes the upper end: lo <= v < hi
NoneOrBelow(v, lo, hi) ==
  IF v.k = "none" THEN "pass" ELSE AndThen(NumLe(IntV(lo), v), NumLt(v, IntV(hi)))
\* v is None or lo <= v <= hi
NoneOrInRange(v, lo, hi) ==
  IF v.k = "none" THEN "pass" ELSE AndThen(NumLe(IntV(lo), v), NumLe(v, IntV(hi)))
\* v in E, for an Enum class E
InEnum(v, e) == IF v.k = "enum" /\ v.enum = e THEN "pass" ELSE "fail"

\* Propagator.validate_steps: three asserts, local_max_step being inf when max_step is None
validate_steps(mn, mx, fs) ==
  LET local_min == IF mn.k = "none" THEN IntV(0) ELSE mn
      LeMax(v) == IF mx.k = "none" THEN (IF IsNum(v) THEN "pass" ELSE "raise") ELSE NumLe(v, mx)
      a1 == IF mn.k = "none" THEN "pass" ELSE AndThen(NumLe(IntV(0), mn), LeMax(mn))
      a2 == IF mx.k = "none" THEN "pass" ELSE NumLe(local_min, mx)
      a3 == IF fs.k = "none" THEN "pass" ELSE AndThen(NumLe(local_min, fs), LeMax(fs))
  IN  AndThen(a1, AndThen(a2, a3))

\* Propagator.validate_tolerances
\* (tolerances[0] or tolerances[1] of a value that has no such element raises)
validate_tolerances(tol) ==
  IF tol.k \notin {"tuple", "list"} \/ Len(tol.e) < 2 THEN "raise"
  ELSE AndThen(NumLt(IntV(0), tol.e[1]),
               IF tol.e[2].k = "none" THEN "pass" ELSE NumLt(IntV(0), tol.e[2]))

\* the validate_* methods, by record type
OrbitCheck(name, A(_)) ==
  CASE name = "validate_eccentricity" -> NoneOrInRange(A("eccentricity"), 0, 1)
    [] name = "validate_inclination" -> NoneOrInRange(A("inclination"), 0, 180)
    [] name = "validate_true_anomaly" -> NoneOrInRange(A("true_anomaly"), 0, 360)
    [] name = "validate_argument_of_perigee" -> NoneOrInRange(A("argument_of_perigee"), 0, 360)

PhysicsCheck(name, A(_)) ==
  CASE name = "validate_gravity_model" -> InEnum(A("gravity_model"), "GravityModel")
    [] name = "validate_atmospheric_model" -> InEnum(A("atmospheric_model"), "AtmosphericModel")
    [] name = "validate_third_body" -> InEnum(A("third_body_model"), "ThirdBodyModel")
    [] name = "validate_harmonic_degree" ->
         AndThen(NumLe(IntV(0), A("harmonic_degree")), NumLe(A("harmonic_degree"), IntV(180)))
    [] name = "validate_harmonic_order" ->
         AndThen(NumLe(IntV(0), A("harmonic_order")), NumLe(A("harmonic_order"), IntV(180)))

PropagatorCheck(name, A(_)) ==
  CASE name = "validate_steps" -> validate_steps(A("min_step"), A("max_step"), A("first_step"))
    [] name = "validate_tolerances" -> validate_tolerances(A("tolerances"))

\* Status.validate_percentage
StatusCheck(name, A(_)) ==
  AndThen(NumLe(IntV(0), A("percentage_completion")), NumLe(A("percentage_completion"), IntV(1)))

\* check_bound(attr, value, min_bound=0): JUIBoundsError when 0 > value
check_bound(v) == IF NumLe(IntV(0), v) = "fail" THEN "bounds" ELSE NumLe(IntV(0), v)

\* validate_positive_values of Payload, SolarPanel and Battery: check_bound on each of
\* the attributes in turn, the first one out of bounds raising
RECURSIVE CheckBounds(_, _)
CheckBounds(vs, i) ==
  IF i > Len(vs) THEN "pass" ELSE AndThen(check_bound(vs[i]), CheckBounds(vs, i + 1))

PositiveValues(c, A(_)) ==
  CASE c = "Payload" -> CheckBounds(<<A("fov_cross"), A("fov_along")>>, 1)
    [] c = "SolarPanel" ->
         CheckBounds(<<A("voltage"), A("surface_area"), A("cell_efficiency")>>, 1)
    [] c = "Battery" ->
         CheckBounds(<<A("voltage"), A("capacity"), A("maximum_discharge_rate"),
                       A("recommended_discharge_rate")>>, 1)

\* getattr(self, method_name)() for the instance at ref
CheckOutcome(h, ref, name) ==
  LET c == h[ref].cls
      A(field) == GetAttr(h, ref, field)
  IN  CASE c = "Orbit" -> OrbitCheck(name, A)
        [] c = "Physics" -> PhysicsCheck(name, A)
        [] c = "Propagator" -> PropagatorCheck(name, A)
        [] c = "Status" -> StatusCheck(name, A)
        [] c \in {"Payload", "SolarPanel", "Battery"} -> PositiveValues(c, A)

\* a faulty listing that yields the checks as the class body declares them
DeclaredNames(c) == Validators(c)

\* the names dir(self) yields that start with validate_: sorted by name
CheckNames(c) == SelectSeq(SortedNames, LAMBDA n : InSeq(n, Validators(c)))

\* the list comprehension of validate: the checks are called one after the other, and
\* the first one that does not return ends the comprehension
RECURSIVE RunChecks(_, _, _, _)

\* the state after check names[i] of the instance at ref has ended with outcome o
Logged(ref, name, o, st) ==
  [st EXCEPT !.log = Append(@, [ref |-> ref, cls |-> st.heap[ref].cls,
                               check |-> name, outcome |-> o])]

\* a faulty validate that goes on with the next check whatever the outcome
AfterCheckGoOn(ref, names, i, o, st) ==
  RunChecks(ref, names, i + 1, Logged(ref, names[i], o, st))

\* check names[i] has ended with outcome o
AfterCheck(ref, names, i, o, st) ==
  IF o = "pass" THEN RunChecks(ref, names, i + 1, Logged(ref, names[i], o, st))
  ELSE Fail(Err("ValidationFailed",
                IF o = "fail" THEN "AssertionError"
                ELSE IF o = "bounds" THEN "JUIBoundsError" ELSE "TypeError",
                <<names[i]>>, None_),
            Logged(ref, names[i], o, st))

RunChecks(ref, names, i, st) ==
  IF i > Len(names) THEN Ok(None_, st)
  ELSE AfterCheck(ref, names, i, CheckOutcome(st.heap, ref, names[i]), st)

\* JourneyObject.validate
validate(ref, st) == RunChecks(ref, CheckNames(st.heap[ref].cls), 1, st)

(***************************************************************************)
(* Equality.  Every record type is declared with @dataclass, whose default *)
(* eq=True gives the class its own __eq__: same class and equal field      *)
(* tuples.  JourneyObject.__eq__ (the to_json comparison) is therefore     *)
(* overridden in every record type, and == on two instances is the         *)
(* field-wise comparison below, with Python's == on the field values.      *)
(***************************************************************************)
RECURSIVE ValueEq(_, _, _)
RECURSIVE dataclass_eq(_, _, _)

\* x == y on two field values
ValueEq(h, x, y) ==
  IF x.k = "obj" /\ y.k = "obj" THEN x.ref = y.ref \/ dataclass_eq(h, x.ref, y.ref)
  ELSE IF IsNum(x) /\ IsNum(y) THEN NumOf(x) = NumOf(y)
  ELSE IF x.k # y.k THEN FALSE
  ELSE IF x.k \in {"list", "tuple"} THEN
       /\ Len(x.e) = Len(y.e)
       /\ \A i \in 1..Len(x.e) : ValueEq(h, x.e[i], y.e[i])
  ELSE IF x.k = "dict" THEN
       /\ Len(x.d) = Len(y.d)
       /\ \A i \in 1..Len(x.d) : \E j \in 1..Len(y.d) :
            ValueEq(h, x.d[i].key, y.d[j].key) /\ ValueEq(h, x.d[i].val, y.d[j].val)
  ELSE x = y

\* the __eq__ that @dataclass generates for a record type
dataclass_eq(h, a, b) ==
  /\ h[a].cls = h[b].cls
  /\ \A i \in 1..Len(h[a].f) : ValueEq(h, h[a].f[i], h[b].f[i])

\* self == existing_obj
ObjEq(h, a, b) == dataclass_eq(h, a, b)

(***************************************************************************)
(* Consolidation.                                                          *)
(***************************************************************************)
\* joe_children: the fields whose declared type is itself a record type
joe_children(c) == SelectSeq([i \in 1..Len(Fields(c)) |-> i], LAMBDA i : IsSubclass(Fields(c)[i].type))

SetField(h, ref, i, v) == [h EXCEPT ![ref].f[i] = v]

\* the members of all_joe_objs equal to self, by position
Matches(h, reg, ref) == {j \in 1..Len(reg) : ObjEq(h, ref, reg[j])}
Least(S) == CHOOSE j \in S : \A m \in S : j <= m

\* a faulty scan that appends self and returns it whether or not a member is equal
ScanAndAppend(ref, matches, st) == [ret |-> ref, st |-> [st EXCEPT !.reg = Append(@, ref)]]

\* the scan of all_joe_objs: the first member equal to self is returned, and self is
\* appended and returned when there is none
ScanRegistry(ref, matches, st) ==
  IF matches # {} THEN [ret |-> st.reg[Least(matches)], st |-> st]
  ELSE [ret |-> ref, st |-> [st EXCEPT !.reg = Append(@, ref)]]

RECURSIVE consolidate_family_tree(_, _)
RECURSIVE ConsolidateChildren(_, _, _, _)

\* setattr(self, joe_name, <what the child's consolidation returned>)
SetChild(ref, children, n, r) ==
  ConsolidateChildren(ref, children, n + 1,
    [r.st EXCEPT !.heap = SetField(@, ref, children[n], Obj(r.ret))])

\* the loop over all_direct_children: a child that is not a str is consolidated and
\* the field is set to what the call returns
ConsolidateChildren(ref, children, n, st) ==
  IF n > Len(children) THEN st
  ELSE IF st.heap[ref].f[children[n]].k = "obj"
       THEN SetChild(ref, children, n,
                     consolidate_family_tree(st.heap[ref].f[children[n]].ref, st))
       ELSE ConsolidateChildren(ref, children, n + 1, st)

\* the scan, on the state the loop over the children leaves
ScanAfterChildren(ref, st) == ScanRegistry(ref, Matches(st.heap, st.reg, ref), st)

\* consolidate_family_tree(self, all_joe_objs): the instance to use in place of self
consolidate_family_tree(ref, st) ==
  ScanAfterChildren(ref, ConsolidateChildren(ref, joe_children(st.heap[ref].cls), 1, st))

(***************************************************************************)
(* Coercion and construction.                                              *)
(***************************************************************************)
\* a faulty engine that looks a text up and, finding no record, answers None
LookedUp(v) == None_
\* "Serialized string is assumed unique ID of JOE Object": the text is returned as
\* it was given
UniqueId(v) == v

RECURSIVE deserialize_simple_var(_, _, _, _)
RECURSIVE deserialize_var(_, _, _, _, _)
RECURSIVE DeserializeEach(_, _, _, _, _, _)
RECURSIVE TryExpectedTypes(_, _, _, _, _, _)
RECURSIVE DeserializeFields(_, _, _)
RECURSIVE Construct(_, _, _)

\* the keyword arguments of cls(**kw) bound to the fields: the generated __init__
\* raises TypeError for an unknown keyword and for a missing field without default
KwHas(kw, name) == \E j \in 1..Len(kw.d) : kw.d[j].key = StrV(name)
KwGet(kw, name) == kw.d[CHOOSE j \in 1..Len(kw.d) : kw.d[j].key = StrV(name)].val
BindOk(c, kw) ==
  /\ \A j \in 1..Len(kw.d) : \E i \in 1..Len(Fields(c)) : kw.d[j].key = StrV(Fields(c)[i].name)
  /\ \A i \in 1..Len(Fields(c)) :
       KwHas(kw, Fields(c)[i].name) \/ Fields(c)[i].default # NoDefault
Bind(c, kw) ==
  [i \in 1..Len(Fields(c)) |->
     IF KwHas(kw, Fields(c)[i].name) THEN KwGet(kw, Fields(c)[i].name)
     ELSE Fields(c)[i].default]

\* the first loop of __post_init__: each field, in order, is replaced by its coerced
\* value; the first field that fails ends the construction
\* the first loop of __post_init__ has done i fields of the instance at ref
Coerced(h, ref, i) == [h EXCEPT ![ref].n = i]

\* a faulty __post_init__ that catches what a field's coercion raises, leaves the
\* field empty and goes on with the next field
SetCoercedOrSkip(ref, i, r) ==
  DeserializeFields(ref, i + 1, [r.st EXCEPT !.heap = Coerced(SetField(@, ref, i, r.val), ref, i)])

\* setattr(self, field.name, <the coerced value>), unless the coercion raised
SetCoerced(ref, i, r) ==
  IF r.ok
  THEN DeserializeFields(ref, i + 1,
         [r.st EXCEPT !.heap = Coerced(SetField(@, ref, i, r.val), ref, i)])
  ELSE r

\* deserialize_var(field.name, inbound_var, *decompose_type(field.type))
DeserializeField(field, v, d, st) == deserialize_var(<<field.name>>, v, d.ext, d.types, st)

DeserializeFields(ref, i, st) ==
  IF i > Len(st.heap[ref].f) THEN Ok(Obj(ref), st)
  ELSE SetCoerced(ref, i,
         DeserializeField(Fields(st.heap[ref].cls)[i], st.heap[ref].f[i],
                          decompose_type(Fields(st.heap[ref].cls)[i].type), st))

\* cls(**kw): __init__ and then __post_init__: coercion of the fields, consolidation
\* (whose result is dropped), validation.  An instance records where its __post_init__
\* stands (at): "coerce", "consolidate", "validate", and "done" once it has returned
At(ref, where, st) == [st EXCEPT !.heap[ref].at = where]

\* the end of __post_init__: validate has returned or raised
Validated(ref, r) == IF r.ok THEN Ok(Obj(ref), At(ref, "done", r.st)) ELSE r

\* self.consolidate_family_tree(); self.validate()
ConsolidateAndValidate(ref, r) ==
  IF r.ok
  THEN Validated(ref,
         validate(ref, At(ref, "validate",
                          consolidate_family_tree(ref, At(ref, "consolidate", r.st)).st)))
  ELSE r

\* __post_init__ of the instance at ref
post_init(ref, st) == ConsolidateAndValidate(ref, DeserializeFields(ref, 1, st))

Construct(c, kw, st) ==
  IF ~BindOk(c, kw) THEN Fail(Err("TypeMismatch", "TypeError", <<"__init__">>, kw), st)
  ELSE post_init(Len(st.heap) + 1,
                 [st EXCEPT !.heap = Append(@, [cls |-> c, f |-> Bind(c, kw), at |-> "coerce", n |-> 0])])

\* the index of the first accepted type that is a record type, or 0
FirstSubclass(expected) ==
  IF \E i \in 1..Len(expected) : IsSubclass(expected[i])
  THEN CHOOSE i \in 1..Len(expected) :
         IsSubclass(expected[i]) /\ \A j \in 1..(i - 1) : ~IsSubclass(expected[j])
  ELSE 0

deserialize_simple_var(varname, v, expected, st) ==
  LET uniform == Len(expected) = 1
      mismatch == Fail(JourneyUserInputException("TypeMismatch", varname, v), st)
  IN  IF v.k = "none" /\ InTypes(T_none, expected) THEN Ok(v, st)
      ELSE IF v.k = "bool" /\ InTypes(T_bool, expected) THEN Ok(v, st)
      ELSE IF IsInt(v) /\ InTypes(T_int, expected) THEN Ok(v, st)
      ELSE IF IsInt(v) THEN
           IF uniform /\ expected[1] = T_float THEN warncast(varname, v, "int", "float", st)
           ELSE IF uniform /\ expected[1] = T_bool THEN warncast(varname, v, "int", "bool", st)
           ELSE mismatch
      ELSE IF v.k = "float" /\ InTypes(T_float, expected) THEN Ok(v, st)
      ELSE IF v.k = "float" THEN
           \* _warncast(varname, float, int) lacks an argument: TypeError
           IF uniform /\ expected[1] = T_int
           THEN Fail(Err("TypeMismatch", "TypeError", varname, v), st)
           ELSE mismatch
      ELSE IF IsStr(v) /\ InTypes(T_str, expected) THEN Ok(v, st)
      ELSE IF v.k = "list" /\ InTypes(T_list, expected) THEN Ok(v, st)
      ELSE IF v.k = "dict" /\ InTypes(T_dict, expected) THEN Ok(v, st)
      ELSE IF IsStr(v) THEN
           IF uniform /\ expected[1] = T_datetime THEN
                IF v.k = "str" /\ IsIsoText(v.s) THEN Ok(fromisoformat(v.s), st)
                ELSE Fail(Err("ParseFailure", "ValueError", varname, v), st)
           ELSE IF uniform /\ expected[1].t = "enum" THEN
                IF v.k = "str" /\ InValueMap(expected[1].e, v.s)
                THEN Ok(ValueToMember(expected[1].e, v.s), st)
                ELSE Fail(JourneyUserInputException("InvalidEnumValue", varname, v), st)
           ELSE Ok(UniqueId(v), st)
      ELSE IF v.k = "dict" THEN
           IF FirstSubclass(expected) # 0
           THEN Construct(expected[FirstSubclass(expected)].c, v, st)
           ELSE Fail(JourneyUserInputException("NoMatchingRecordType", varname, v), st)
      ELSE IF v.k = "obj" THEN Ok(v, st)
      ELSE IF v.k = "datetime" /\ InTypes(T_datetime, expected) THEN Ok(v, st)
      ELSE TryExpectedTypes(varname, v, expected, 1, <<>>, st)

\* case _: each accepted type in turn; what an attempt raises is kept, and when no
\* attempt returns the failures are raised together
\* one attempt of case _: the accepted type decomposes to d
TryType(varname, v, d, st) ==
  IF d.ext = "none" /\ Len(d.types) = 1
  THEN IF IsInstance(st.heap, v, d.types[1]) THEN Ok(v, st)
       ELSE Fail(JourneyUserInputException("TypeMismatch", varname, v), st)
  ELSE deserialize_var(varname, v, d.ext, d.types, st)

\* a faulty fallback that goes on to the next accepted type without keeping what the
\* attempt raised
CatchAndForget(varname, v, expected, i, caught, r) ==
  IF r.ok THEN r
  ELSE TryExpectedTypes(varname, v, expected, i + 1, caught, r.st)

\* except Exception as e: caught_type_exception_pairs.append((expected_type, e))
CatchAndGoOn(varname, v, expected, i, caught, r) ==
  IF r.ok THEN r
  ELSE TryExpectedTypes(varname, v, expected, i + 1,
         Append(caught, [type |-> expected[i], err |-> r.err]), r.st)

TryExpectedTypes(varname, v, expected, i, caught, st) ==
  IF i > Len(expected)
  THEN Fail([JourneyUserInputException("TypeMismatch", varname, v) EXCEPT !.tried = caught], st)
  ELSE CatchAndGoOn(varname, v, expected, i, caught,
                    TryType(varname, v, decompose_type(expected[i]), st))

\* element i has been coerced, or has raised
NextElement(varname, elems, exps, i, acc, r) ==
  IF r.ok THEN DeserializeEach(varname, elems, exps, i + 1, Append(acc, r.val), r.st)
  ELSE r

\* the list comprehensions of deserialize_var: element i against exps[i]
DeserializeEach(varname, elems, exps, i, acc, st) ==
  IF i > Len(elems) THEN Ok(acc, st)
  ELSE NextElement(varname, elems, exps, i, acc,
         deserialize_simple_var(ElemName(varname, i), elems[i], exps[i], st))

\* list(...) or tuple(...) of the coerced elements
Retag(r, kind) == IF r.ok THEN Ok([k |-> kind, e |-> r.val], r.st) ELSE r

\* a faulty length test that lets a shorter input through
ArityAtMost(types, n) == Len(types) > 1 /\ n <= Len(types)

\* a tuple with several declared element types takes as many elements as types
ArityMatches(types, n) == Len(types) > 1 /\ Len(types) = n

deserialize_var(varname, v, ext, types, st) ==
  LET n == IF v.k \in {"list", "tuple"} THEN Len(v.e) ELSE 0
  IN  IF ext = "none" THEN deserialize_simple_var(varname, v, types, st)
      ELSE IF ext = "list" /\ v.k = "list" THEN
           IF Len(types) = 0 THEN Ok(v, st)
           ELSE Retag(DeserializeEach(varname, v.e, [j \in 1..n |-> types], 1, <<>>, st), "list")
      ELSE IF ext = "tuple" /\ v.k \in {"tuple", "list"} THEN
           IF Len(types) = 0 THEN Ok(Tup(v.e), st)
           ELSE IF Len(types) = 1 THEN
                Retag(DeserializeEach(varname, v.e, [j \in 1..n |-> <<types[1]>>], 1, <<>>, st),
                      "tuple")
           ELSE IF ArityMatches(types, n) THEN
                Retag(DeserializeEach(varname, v.e, [j \in 1..n |-> <<types[j]>>], 1, <<>>, st),
                      "tuple")
           ELSE Fail(JourneyUserInputException("ArityMismatch", varname, v), st)
      ELSE IF ext = "dict" /\ v.k = "dict" THEN
           IF Len(types) = 0 THEN Ok(v, st)
           \* the comprehension passes a type where a tuple of types is expected, and
           \* three arguments to deserialize_var: the first item raises TypeError
           ELSE IF Len(v.d) = 0 THEN Ok(Dict(<<>>), st)
           ELSE Fail(Err("TypeMismatch", "TypeError", varname, v), st)
      ELSE Fail(JourneyUserInputException("TypeMismatch", varname, v), st)

(***************************************************************************)
(* Encoding and decoding.  json.dumps(v) is a str that holds the document  *)
(* of v (tuples become arrays); json.loads gives the document back.  The   *)
(* dicts of the model have text keys only.                                 *)
(***************************************************************************)
RECURSIVE Serializable(_)
RECURSIVE JsonDoc(_)
RECURSIVE JourneyObjectFieldSerializer(_, _)

\* what json.dumps accepts
Serializable(v) ==
  CASE v.k \in {"none", "bool", "int", "float", "str", "jsonstr"} -> TRUE
    [] v.k \in {"list", "tuple"} -> \A i \in 1..Len(v.e) : Serializable(v.e[i])
    [] v.k = "dict" -> \A i \in 1..Len(v.d) : IsStr(v.d[i].key) /\ Serializable(v.d[i].val)
    [] OTHER -> FALSE

\* the document json.dumps writes for v, as json.loads reads it back
JsonDoc(v) ==
  CASE v.k \in {"list", "tuple"} -> List([i \in 1..Len(v.e) |-> JsonDoc(v.e[i])])
    [] v.k = "dict" -> Dict([i \in 1..Len(v.d) |-> Item(v.d[i].key, JsonDoc(v.d[i].val))])
    [] OTHER -> v

dumps(v) == JsonStr(JsonDoc(v))
loads(text) == text.doc

\* JourneyObjectFieldSerializer: a dict and a list are rendered with json.dumps, that is
\* as a str
JourneyObjectFieldSerializer(h, v) ==
  CASE v.k = "datetime" -> isoformat(v)
    [] v.k = "dict" ->
         dumps(Dict([i \in 1..Len(v.d) |->
                       Item(v.d[i].key, JourneyObjectFieldSerializer(h, v.d[i].val))]))
    [] v.k = "list" ->
         dumps(List([i \in 1..Len(v.e) |-> JourneyObjectFieldSerializer(h, v.e[i])]))
    [] v.k = "enum" -> StrV(MemberValue(v))
    [] v.k = "obj" -> GetAttr(h, v.ref, "id")
    [] OTHER -> v

\* the dict to_json hands to json.dumps
EncodedFields(h, ref) ==
  Dict([i \in 1..Len(h[ref].f) |->
          Item(StrV(Fields(h[ref].cls)[i].name), JourneyObjectFieldSerializer(h, h[ref].f[i]))])

\* to_json(self)
to_json(h, ref, st) ==
  IF Serializable(EncodedFields(h, ref)) THEN Ok(dumps(EncodedFields(h, ref)), st)
  ELSE Fail(Err("TypeMismatch", "TypeError", <<"to_json">>, Obj(ref)), st)

\* from_json(cls, object_str)
from_json(c, text, st) == Construct(c, loads(text), st)

\* JourneyObject.__eq__, which the record types do not inherit: equal to_json texts
json_eq(h, a, b) ==
  /\ h[a].cls = h[b].cls
  /\ EncodedFields(h, a) = EncodedFields(h, b)

(***************************************************************************)
(* Raw inputs: the example payloads of the record types, and variations of *)
(* one or two fields of them.                                              *)
(***************************************************************************)
ISO1 == "2024-04-04T20:49:02"
ISO2 == "2027-04-04T20:49:02"

Kw(pairs) == Dict([i \in 1..Len(pairs) |-> Item(StrV(pairs[i][1]), pairs[i][2])])
\* kw with the value of key name replaced, or added
With(kw, name, v) ==
  IF KwHas(kw, name)
  THEN Dict([i \in 1..Len(kw.d) |-> IF kw.d[i].key = StrV(name) THEN Item(StrV(name), v) ELSE kw.d[i]])
  ELSE Dict(Append(kw.d, Item(StrV(name), v)))
\* kw without key name
Without(kw, name) == Dict(SelectSeq(kw.d, LAMBDA it : it.key # StrV(name)))

BaseExample ==
  << <<"id", StrV("id-1")>>, <<"creation_date", StrV(ISO1)>>, <<"update_date", StrV(ISO1)>> >>

CompanyExample == Kw(BaseExample \o << <<"name", StrV("FubaruToTheMoon")>> >>)
MissionExample ==
  Kw(BaseExample \o
     << <<"created_by", CompanyExample>>, <<"name", StrV("MyMissionToMars")>>,
        <<"launch_date", StrV(ISO2)>>, <<"amd_enabled", BoolV(TRUE)>> >>)
OrbitExample ==
  Kw(BaseExample \o
     << <<"semi_major_axis", FltV(7200000)>>, <<"eccentricity", FltV(1)>>,
        <<"inclination", FltV(85300)>>, <<"argument_of_perigee", FltV(6290)>>,
        <<"raan", FltV(260740)>>, <<"true_anomaly", FltV(0)>> >>)
AttitudeExample ==
  Kw(BaseExample \o
     << <<"quaternions", List(<<FltV(0), FltV(0)>>)>>, <<"spin", List(<<FltV(0)>>)>>,
        <<"acceleration", List(<<FltV(0)>>)>> >>)

\* cls.example, which names the example of other classes
RECURSIVE Example(_)
Example(c) ==
  CASE c = "Company" -> CompanyExample
    [] c = "Mission" -> MissionExample
    [] c = "RequestForInformation" ->
         Kw(BaseExample \o
            << <<"created_by", CompanyExample>>, <<"mission", MissionExample>>,
               <<"request", StrV("HALP")>> >>)
    [] c = "Orbit" -> OrbitExample
    [] c = "Attitude" -> AttitudeExample
    [] c = "Target" ->
         Kw(BaseExample \o
            << <<"mission", MissionExample>>, <<"name", StrV("MyTarget6")>>,
               <<"latitude", FltV(20300)>>, <<"longitude", FltV(33500)>>,
               <<"minimum_elevation", FltV(65000)>>, <<"altitude", FltV(12500)>>,
               <<"shapefile", None_>> >>)
    [] c = "Physics" ->
         Kw(BaseExample \o
            << <<"mission", MissionExample>>, <<"start_time", StrV(ISO1)>>,
               <<"gravity_model", StrV("EIGEN-6S")>>,
               <<"atmospheric_model", StrV("NRLMSISE-00")>>,
               <<"third_body_model", StrV("all")>>, <<"solar_radiation_model", BoolV(TRUE)>>,
               <<"harmonic_degree", IntV(0)>>, <<"harmonic_order", IntV(2)>> >>)
    [] c = "Propagator" ->
         Kw(BaseExample \o
            << <<"algorithm", StrV("DOP853")>>, <<"averaging", StrV("None")>>,
               <<"min_step", FltV(1)>>, <<"max_step", None_>>, <<"first_step", FltV(60000)>>,
               <<"tolerances", Tup(<<FltV(1), None_>>)>> >>)
    [] c = "Status" ->
         Kw(BaseExample \o
            << <<"percentage_completion", FltV(500)>>, <<"computation_state", StrV("running")>>,
               <<"message", StrV("")>>,
               <<"information", Kw(<< <<"steps_taken", IntV(4)>> >>)>> >>)
    [] c = "PropagationResult" ->
         Kw(BaseExample \o
            << <<"timestamps", List(<<StrV(ISO1)>>)>>, <<"orbits", List(<<OrbitExample>>)>>,
               <<"masses", List(<<FltV(7980)>>)>>, <<"attitudes", List(<<AttitudeExample>>)>>,
               <<"lighting_ratios", List(<<FltV(1000)>>)>>,
               <<"thrust_directions", List(<<List(<<FltV(1000), FltV(0), FltV(0)>>)>>)>>,
               <<"thrust_magnitudes", List(<<FltV(1000)>>)>>, <<"delta_v", List(<<FltV(1000)>>)>>,
               <<"total_impulse", List(<<FltV(1000)>>)>>,
               <<"groundstation_events", List(<<Kw(<<>>)>>)>>,
               <<"target_events", List(<<Kw(<<>>)>>)>> >>)
    [] c = "GroundStation" ->
         Kw(BaseExample \o
            << <<"mission", MissionExample>>, <<"name", StrV("GroundStation5")>>,
               <<"latitude", FltV(20300)>>, <<"longitude", FltV(33500)>>,
               <<"minimum_elevation", FltV(65000)>>, <<"altitude", FltV(12500)>>,
               <<"provider", StrV("FSAT")>> >>)
    [] c = "Maneuver" ->
         Kw(BaseExample \o
            << <<"mission", MissionExample>>, <<"maneuver_type", StrV("deorbit")>>,
               <<"final_orbit", OrbitExample>>, <<"name", StrV("FubarToRabuf")>>,
               <<"optimize", BoolV(FALSE)>>, <<"duration", FltV(15000)>>,
               <<"sequence_number", IntV(1)>> >>)
    [] c = "Satellite" ->
         Kw(BaseExample \o << <<"mission", MissionExample>>, <<"name", StrV("Satellite7")>> >>)
    [] c = "Bus" ->
         Kw(BaseExample \o
            << <<"satellite", Example("Satellite")>>, <<"size", StrV("6U")>>,
               <<"length", FltV(300)>>, <<"width", FltV(200)>>, <<"height", FltV(100)>>,
               <<"drag", FltV(400)>>, <<"reflectivity", FltV(10)>>, <<"mass", FltV(5000)>> >>)
    [] c = "Propulsion" ->
         Kw(BaseExample \o
            << <<"satellite", Example("Satellite")>>, <<"prop_mass", FltV(4200)>>,
               <<"isp", List(<<FltV(45200)>>)>>, <<"thrust", List(<<FltV(31400)>>)>>,
               <<"type", StrV("Ion Thruster")>> >>)
    [] c = "Payload" ->
         Kw(BaseExample \o
            << <<"satellite", Example("Satellite")>>, <<"fov_cross", FltV(45000)>>,
               <<"fov_along", FltV(45000)>> >>)
    [] c = "SolarPanel" ->
         Kw(BaseExample \o
            << <<"satellite", Example("Satellite")>>, <<"mount_type", StrV("Body")>>,
               <<"cell_efficiency", FltV(32400)>>, <<"surface_area", FltV(11200)>>,
               <<"voltage", FltV(5200)>> >>)
    [] c = "Battery" ->
         Kw(BaseExample \o
            << <<"satellite", Example("Satellite")>>, <<"voltage", FltV(5100)>>,
               <<"capacity", FltV(21000000)>>, <<"maximum_discharge_rate", FltV(100000)>>,
               <<"recommended_discharge_rate", FltV(20000)>> >>)
    [] c = "PowerBudget" ->
         Kw(BaseExample \o
            << <<"satellite", Example("Satellite")>>,
               <<"budget", Kw(<< <<"active_power_draw", IntV(5)>> >>)>> >>)
    [] c = "PropagationTicket" ->
         Kw(BaseExample \o
            << <<"start_time", StrV(ISO1)>>, <<"initial_orbit", OrbitExample>>,
               <<"maneuver", Example("Maneuver")>>, <<"physics", Example("Physics")>>,
               <<"attitude", AttitudeExample>>, <<"satellite", Example("Satellite")>>,
               <<"bus", Example("Bus")>>, <<"propulsion", Example("Propulsion")>>,
               <<"solarpanel", Example("SolarPanel")>>, <<"battery", Example("Battery")>>,
               <<"powerbudget", Example("PowerBudget")>>, <<"payload", Example("Payload")>>,
               <<"groundstations", List(<<Example("GroundStation")>>)>>,
               <<"targets", List(<<Example("Target")>>)>>,
               <<"propagator", Example("Propagator")>>, <<"status", Example("Status")>> >>)

\* the values a field of the example is varied to: [field, values]
Vary(field, values) == [field |-> field, values |-> values]

Variations(c) ==
  CASE c = "Company" -> << Vary("id", <<StrV("id-2")>>) >>
    [] c = "Mission" ->
         << Vary("created_by", <<StrV("id-1"), With(CompanyExample, "id", StrV("id-2"))>>) >>
    [] c = "RequestForInformation" ->
         << Vary("created_by", <<With(CompanyExample, "id", StrV("id-2"))>>) >>
    [] c = "Orbit" ->
         << Vary("eccentricity",
                 <<None_, FltV(-500), FltV(0), FltV(1000), FltV(1001), FltV(1500),
                   IntV(0), StrV("abc")>>),
            Vary("inclination", <<None_, FltV(180000), FltV(200000), IntV(90)>>),
            Vary("argument_of_perigee", <<FltV(400000)>>),
            Vary("true_anomaly", <<FltV(-1), FltV(360000), FltV(360001)>>) >>
    [] c = "Attitude" -> << Vary("spin", <<List(<<IntV(3)>>), FltV(0), StrV("id-7")>>) >>
    [] c = "Target" ->
         << Vary("latitude", <<IntV(3), IntV(-2), BoolV(TRUE), StrV("north"), None_>>),
            Vary("longitude", <<IntV(0), FltV(3000)>>),
            Vary("shapefile", <<StrV("area.shp")>>) >>
    [] c = "Physics" ->
         << Vary("gravity_model",
                 <<StrV("EIGEN6S"), StrV("GGM02C"), StrV("nope"), Enm("GravityModel", "GGM03S"),
                   IntV(1)>>),
            Vary("atmospheric_model", <<StrV("Off"), StrV("OFF"), StrV("NRLMSISE00")>>),
            Vary("third_body_model", <<StrV("None"), StrV("ALL"), StrV("sunmoon")>>),
            Vary("harmonic_degree", <<IntV(200), FltV(3000)>>),
            Vary("start_time", <<StrV("2024-04-04"), StrV("yesterday")>>) >>
    [] c = "Propagator" ->
         << Vary("tolerances",
                 <<List(<<FltV(1), None_>>), List(<<FltV(1)>>), List(<<IntV(1), FltV(2)>>),
                   List(<<FltV(1), FltV(2), FltV(3)>>), Tup(<<FltV(0), None_>>), List(<<>>),
                   Tup(<<None_, FltV(1)>>), FltV(1), StrV("id-7")>>),
            Vary("algorithm", <<StrV("RK45"), StrV("rk45")>>),
            Vary("max_step", <<FltV(0)>>) >>
    [] c = "Status" ->
         << Vary("percentage_completion", <<IntV(1), IntV(3), FltV(1500)>>),
            Vary("computation_state", <<StrV("success"), StrV("RUNNING"), StrV("")>>),
            Vary("information", <<StrV("id-7")>>) >>
    [] c = "PropagationResult" ->
         << Vary("orbits",
                 <<List(<<OrbitExample, OrbitExample>>),
                   List(<<OrbitExample, With(OrbitExample, "eccentricity", FltV(1500))>>)>>) >>
    [] c = "Maneuver" -> << Vary("maneuver_type", <<StrV("DEORBIT"), StrV("phase")>>) >>
    [] c = "Bus" -> << Vary("drag", <<IntV(2)>>) >>
    [] c = "Payload" -> << Vary("fov_cross", <<FltV(-1000), FltV(0)>>) >>
    [] c = "SolarPanel" -> << Vary("voltage", <<FltV(-5200)>>) >>
    [] c = "Battery" -> << Vary("capacity", <<IntV(-1), IntV(0)>>) >>
    [] c = "PropagationTicket" ->
         << Vary("attitude", <<None_, StrV("id-1")>>),
            Vary("payload", <<With(Example("Payload"), "fov_along", FltV(-1000))>>) >>
    [] OTHER -> <<>>

\* variations of two fields of the example, and of its set of keys
MoreInputs(c) ==
  CASE c = "Orbit" ->
         {With(With(OrbitExample, "eccentricity", FltV(1500)), "argument_of_perigee", FltV(400000)),
          With(With(OrbitExample, "eccentricity", FltV(1500)), "inclination", FltV(200000))}
    [] c = "Propagator" -> {Without(Example(c), "tolerances")}
    [] c = "Company" -> {Without(Example(c), "name")}
    [] c = "Bus" -> {Without(Without(Example(c), "drag"), "reflectivity")}
    [] OTHER -> {}

\* the raw field maps of the one-call program
RawInputs(c) ==
  {Example(c)} \cup MoreInputs(c) \cup
  UNION {{With(Example(c), Variations(c)[i].field, Variations(c)[i].values[j]) :
            j \in 1..Len(Variations(c)[i].values)} : i \in 1..Len(Variations(c))}

\* the example of a PropagationTicket without its optional parts other than attitude
SmallTicket ==
  Without(Without(Without(Without(Without(Example("PropagationTicket"),
    "propulsion"), "solarpanel"), "battery"), "powerbudget"), "payload")

\* the record types a process that makes several calls constructs only as parts of a
\* PropagationTicket
TicketParts ==
  {"GroundStation", "Maneuver", "Satellite", "Bus", "Propulsion", "Payload", "SolarPanel",
   "Battery", "PowerBudget"}

\* the raw field maps a process that makes several calls chooses from
SessionInputs(c) ==
  (IF c \in TicketParts \cup {"PropagationTicket"} THEN {} ELSE {Example(c)}) \cup
  CASE c = "Company" -> {With(Example(c), "id", StrV("id-2")), Without(Example(c), "name")}
    [] c = "Mission" -> {With(Example(c), "created_by", With(CompanyExample, "id", StrV("id-2")))}
    [] c = "Orbit" ->
         {With(OrbitExample, "eccentricity", FltV(1500)),
          With(With(OrbitExample, "eccentricity", FltV(1500)), "argument_of_perigee", FltV(400000))}
    [] c = "PropagationTicket" -> {SmallTicket}
    [] c = "Status" ->
         {With(Example(c), "information", Kw(<< <<"steps_taken", FltV(4000)>> >>))}
    [] c = "PropagationResult" ->
         {With(Example(c), "orbits", List(<<OrbitExample, OrbitExample>>)),
          With(Example(c), "orbits",
               List(<<OrbitExample, With(OrbitExample, "eccentricity", FltV(1500))>>))}
    [] OTHER -> {}

(***************************************************************************)
(* The program: a process that makes top-level calls one after the other.  *)
(* last is what the latest call was given and what it gave back.           *)
(***************************************************************************)
\* the instances a caller holding one instance can get at: those its fields hold,
\* directly or inside a list, a tuple or a dict
RECURSIVE RefsOf(_)
RefsOf(v) ==
  IF v.k = "obj" THEN {v.ref}
  ELSE IF v.k \in {"list", "tuple"} THEN UNION {RefsOf(v.e[i]) : i \in 1..Len(v.e)}
  ELSE IF v.k = "dict" THEN UNION {RefsOf(v.d[i].val) : i \in 1..Len(v.d)}
  ELSE {}

ChildrenOf(h, ref) == UNION {RefsOf(h[ref].f[i]) : i \in 1..Len(h[ref].f)}

\* S and what the instances of S hold
Grow(h, S) == S \cup UNION {ChildrenOf(h, r) : r \in S}

RECURSIVE ReachFrom(_, _, _)
ReachFrom(h, S, n) ==
  IF n = 0 \/ Grow(h, S) = S THEN S ELSE ReachFrom(h, Grow(h, S), n - 1)

Reachable(h, ref) == ReachFrom(h, {ref}, Len(h))

NoCall ==
  [op |-> "none", cls |-> "", input |-> None_, ty |-> T_none, ok |-> FALSE, val |-> None_,
   obj |-> 0, err |-> NoErr, warns |-> <<>>, log |-> <<>>, from |-> 0, base |-> 0,
   pre |-> <<>>, post |-> <<>>]

\* the state a top-level call starts from
CallState == [heap |-> heap, reg |-> registry, warns |-> <<>>, log |-> <<>>]

Outcome(op, c, input, ty, from, r) ==
  [op |-> op, cls |-> c, input |-> input, ty |-> ty, ok |-> r.ok, val |-> r.val,
   obj |-> IF r.ok /\ r.val.k = "obj" THEN r.val.ref ELSE 0,
   err |-> r.err, warns |-> r.st.warns, log |-> r.st.log, from |-> from, base |-> Len(heap),
   pre |-> registry, post |-> r.st.reg]

Init ==
  /\ heap = <<>>
  /\ registry = <<>>
  /\ calls = 0
  /\ threads = <<>>
  /\ last = NoCall

\* construct(record_type, raw_field_map): cls(**kw)
ConstructCall ==
  /\ calls < MaxCalls
  /\ \E i \in 1..Len(Classes) : \E kw \in SessionInputs(Classes[i]) :
       \E r \in {Construct(Classes[i], kw, CallState)} :
          /\ heap' = r.st.heap
          /\ registry' = r.st.reg
          /\ last' = Outcome("construct", Classes[i], kw, TRec(Classes[i]), 0, r)
  /\ calls' = calls + 1
  /\ UNCHANGED threads

\* cls.from_json(I.to_json()) for the instance I the latest call returned
RoundTripCall ==
  /\ calls < MaxCalls
  /\ last.ok /\ last.obj # 0
  /\ \E t \in {to_json(heap, last.obj, CallState)} :
       \E r \in {IF t.ok THEN from_json(heap[last.obj].cls, t.val, CallState) ELSE t} :
          /\ heap' = r.st.heap
          /\ registry' = r.st.reg
          /\ last' = Outcome("from_json", heap[last.obj].cls, t.val,
                             TRec(heap[last.obj].cls), last.obj, r)
  /\ calls' = calls + 1
  /\ UNCHANGED threads

\* R.consolidate_family_tree() and R.consolidate_family_tree([]) for an instance R
\* the caller can get at from the one the latest call returned: against the registry
\* of the process, and against a list of the caller that starts empty
ConsolidateCall ==
  /\ calls < MaxCalls
  /\ last.op \in {"construct", "from_json"} /\ last.ok /\ last.obj # 0
  /\ \E R \in Reachable(heap, last.obj) : \E U \in {registry, <<>>} :
       \E c \in {consolidate_family_tree(R, [CallState EXCEPT !.reg = U])} :
          /\ heap' = c.st.heap
          /\ registry' = IF U = registry THEN c.st.reg ELSE registry
          /\ last' = [Outcome("consolidate", heap[R].cls, Obj(R), TRec(heap[R].cls), R,
                              Ok(Obj(c.ret), c.st)) EXCEPT !.pre = U]
  /\ calls' = calls + 1
  /\ UNCHANGED threads

Next == ConstructCall \/ RoundTripCall \/ ConsolidateCall

Spec == Init /\ [][Next]_vars

(***************************************************************************)
(* The one-call program: a fresh process (empty registry) that is handed   *)
(* one record type and one raw field map, and constructs it.               *)
(***************************************************************************)
Pending(c, kw) == [NoCall EXCEPT !.op = "pending", !.cls = c, !.input = kw, !.ty = TRec(c)]

InitFields ==
  /\ heap = <<>>
  /\ registry = <<>>
  /\ calls = 0
  /\ threads = <<>>
  /\ last \in UNION {{Pending(Classes[i], kw) : kw \in RawInputs(Classes[i])} :
                       i \in 1..Len(Classes)}

\* construct(record_type, raw_field_map) on the pending input
ConstructOnce ==
  /\ last.op = "pending"
  /\ \E r \in {Construct(last.cls, last.input, CallState)} :
       /\ heap' = r.st.heap
       /\ registry' = r.st.reg
       /\ last' = Outcome("construct", last.cls, last.input, last.ty, 0, r)
  /\ calls' = calls + 1
  /\ UNCHANGED threads

\* deserialize_var(field.name, value, *decompose_type(field.type)) once more, on the
\* value a field of the instance just constructed holds
CoerceAgain ==
  /\ last.op = "construct" /\ last.ok /\ last.obj # 0
  /\ \E i \in 1..Len(Fields(last.cls)) :
       \E r \in {DeserializeField(Fields(last.cls)[i], heap[last.obj].f[i],
                                  decompose_type(Fields(last.cls)[i].type), CallState)} :
          /\ heap' = r.st.heap
          /\ registry' = r.st.reg
          /\ last' = Outcome("coerce", last.cls, heap[last.obj].f[i],
                             Fields(last.cls)[i].type, last.obj, r)
  /\ calls' = calls + 1
  /\ UNCHANGED threads

NextFields == ConstructOnce \/ CoerceAgain

SpecFields == InitFields /\ [][NextFields]_vars

(***************************************************************************)
(* The coercion program: a process that has constructed one record and     *)
(* then coerces one raw value against one declared field type, as          *)
(* __post_init__ does for a field declared with that type.  The types are  *)
(* those a record type may declare: the engine is the same for all.        *)
(***************************************************************************)
\* the record types whose example the process constructs first
PartClasses == {"Company", "Mission", "Orbit"}

UnionOfThree == TUnion(<<TList(T_float), TTuple(<<T_int, T_int>>), T_datetime>>)
UnionOfTwo == TUnion(<<T_float, TList(T_int)>>)

DeclaredTypes ==
  {T_dict, TDict(T_str, T_float), TDict(T_str, TList(T_float)), UnionOfThree, UnionOfTwo,
   T_float, Optional(T_float), TList(T_float), TRec("Company"), Optional(TRec("Company")),
   TList(TRec("Company"))}

RawValues ==
  {None_, FltV(2500), StrV("id-7"), fromisoformat(ISO1),
   Dict(<<>>), Kw(<< <<"a", FltV(1000)>> >>), Kw(<< <<"a", IntV(1)>>, <<"b", FltV(2000)>> >>),
   Kw(<< <<"a", List(<<FltV(1000)>>)>> >>),
   List(<<FltV(1000), FltV(2000)>>), List(<<IntV(1), IntV(2)>>), List(<<None_>>),
   Tup(<<IntV(1), IntV(2)>>), Tup(<<FltV(1000), FltV(2000), FltV(3000)>>),
   Tup(<<IntV(1), None_>>), CompanyExample}

InitCoerce ==
  /\ heap = <<>>
  /\ registry = <<>>
  /\ calls = 0
  /\ threads = <<>>
  /\ last = NoCall

\* cls(**cls.example) for one of the record types
ConstructPart ==
  /\ last.op = "none"
  /\ \E c \in PartClasses : \E r \in {Construct(c, Example(c), CallState)} :
       /\ heap' = r.st.heap
       /\ registry' = r.st.reg
       /\ last' = Outcome("construct", c, Example(c), TRec(c), 0, r)
  /\ calls' = calls + 1
  /\ UNCHANGED threads

\* deserialize_var(field.name, inbound_var, *decompose_type(field.type)) for a raw
\* value or an instance the process holds
CoerceValue ==
  /\ last.op = "construct" /\ last.ok
  /\ \E ty \in DeclaredTypes : \E v \in RawValues \cup {Obj(ref) : ref \in 1..Len(heap)} :
       \E r \in {DeserializeField(Fld("field", ty), v, decompose_type(ty), CallState)} :
          /\ heap' = r.st.heap
          /\ registry' = r.st.reg
          /\ last' = Outcome("coerce", last.cls, v, ty, 0, r)
  /\ calls' = calls + 1
  /\ UNCHANGED threads

NextCoerce == ConstructPart \/ CoerceValue

SpecCoerce == InitCoerce /\ [][NextCoerce]_vars

(***************************************************************************)
(* The fixture generators.  get_serialized_tests and get_deserialized_tests *)
(* collect, for each field, a list of values, and return the Cartesian     *)
(* product of the lists as a list of field maps.  The fixture program      *)
(* generates both lists for one record type and then constructs the record *)
(* from one raw fixture.                                                   *)
(***************************************************************************)
\* [type_arg for type_arg in get_args(expected_type) if type_arg is not NoneType][0]
NotNoneArg(ty) == ty.args[Least({i \in 1..Len(ty.args) : ty.args[i] # T_none})]
\* expected_type, once the None of an Optional has been set aside
ExpectedType(ty) == IF is_optional(ty) THEN NotNoneArg(ty) ELSE ty
\* input_vals[field.name].append(None) for an Optional field
NoneFirst(ty) == IF is_optional(ty) THEN <<None_>> ELSE <<>>
\* cls.example[field.name], which raises KeyError when the example lacks the field
ExampleOf(c, name, st) ==
  IF KwHas(Example(c), name) THEN Ok(KwGet(Example(c), name), st)
  ELSE Fail(Err("KeyError", "KeyError", <<name>>, None_), st)
\* one value appended to the list of a field, unless getting it raised
Appended(before, r) == IF r.ok THEN Ok(before \o <<r.val>>, r.st) ELSE r

\* input_vals[field.name] of get_serialized_tests: the values of an Enum's
\* _value2member_map_, or the example of the class for the field
SerializedVals(c, field, st) ==
  IF ExpectedType(field.type).t = "enum"
  THEN Ok(NoneFirst(field.type) \o
          [i \in 1..Len(EnumMembers(ExpectedType(field.type).e)) |->
             StrV(EnumMembers(ExpectedType(field.type).e)[i].value)], st)
  ELSE Appended(NoneFirst(field.type), ExampleOf(c, field.name, st))

\* expected_type(**cls.example[field.name])
ConstructExample(c, r) == IF r.ok THEN Construct(c, r.val, r.st) ELSE r

\* input_vals[field.name] of get_deserialized_tests: the members of an Enum, the
\* record constructed from the example for a field declared as a record type, and
\* the example of the class as it stands for every other field, a datetime included
DeserializedVals(c, field, st) ==
  IF ExpectedType(field.type).t = "enum"
  THEN Ok(NoneFirst(field.type) \o
          [i \in 1..Len(EnumMembers(ExpectedType(field.type).e)) |->
             Enm(ExpectedType(field.type).e, EnumMembers(ExpectedType(field.type).e)[i].name)], st)
  ELSE IF IsSubclass(ExpectedType(field.type))
  THEN Appended(NoneFirst(field.type),
                ConstructExample(ExpectedType(field.type).c, ExampleOf(c, field.name, st)))
  ELSE Appended(NoneFirst(field.type), ExampleOf(c, field.name, st))

\* the list of field i, for the raw or for the pre-typed flavour
FieldVals(c, i, typed, st) ==
  IF typed THEN DeserializedVals(c, Fields(c)[i], st) ELSE SerializedVals(c, Fields(c)[i], st)

RECURSIVE InputVals(_, _, _, _, _)
\* the list of field i has been collected, or collecting it raised
NextVals(c, i, typed, acc, r) ==
  IF r.ok THEN InputVals(c, i + 1, typed, Append(acc, r.val), r.st) ELSE r
\* for field in fields(cls): input_vals[field.name] = [...]
InputVals(c, i, typed, acc, st) ==
  IF i > Len(Fields(c)) THEN Ok(acc, st)
  ELSE NextVals(c, i, typed, acc, FieldVals(c, i, typed, st))

RECURSIVE Prod(_, _)
\* the number of combinations of the lists from position j on
Prod(lists, j) == IF j > Len(lists) THEN 1 ELSE Len(lists[j]) * Prod(lists, j + 1)
\* product_dict(**kwargs): a dict for each element of itertools.product of the
\* lists, the last list varying fastest
product_dict(c, lists) ==
  [k \in 1..Prod(lists, 1) |->
     Dict([j \in 1..Len(lists) |->
             Item(StrV(Fields(c)[j].name),
                  lists[j][(((k - 1) \div Prod(lists, j + 1)) % Len(lists[j])) + 1])])]
\* return product_dict(**input_vals)
Product(c, r) == IF r.ok THEN Ok(List(product_dict(c, r.val)), r.st) ELSE r

get_serialized_tests(c, st) == Product(c, InputVals(c, 1, FALSE, <<>>, st))
get_deserialized_tests(c, st) == Product(c, InputVals(c, 1, TRUE, <<>>, st))

InitFixtures ==
  /\ heap = <<>>
  /\ registry = <<>>
  /\ calls = 0
  /\ threads = <<>>
  /\ last = NoCall

\* raw = cls.get_serialized_tests(); typed = cls.get_deserialized_tests()
GenerateTests ==
  /\ last.op = "none"
  /\ \E i \in 1..Len(Classes) :
       \E s \in {get_serialized_tests(Classes[i], CallState)} :
         \E d \in {get_deserialized_tests(Classes[i], s.st)} :
            /\ heap' = d.st.heap
            /\ registry' = d.st.reg
            /\ last' = [Outcome("fixtures", Classes[i], s.val, TRec(Classes[i]), 0, d)
                          EXCEPT !.ok = s.ok /\ d.ok]
  /\ calls' = calls + 1
  /\ UNCHANGED threads

\* cls(**raw[k]) for one of the raw fixtures
ConstructFixture ==
  /\ last.op = "fixtures" /\ last.ok
  /\ \E k \in 1..Len(last.input.e) :
       \E r \in {Construct(last.cls, last.input.e[k], CallState)} :
          /\ heap' = r.st.heap
          /\ registry' = r.st.reg
          /\ last' = Outcome("construct", last.cls, last.input.e[k], last.ty, k, r)
  /\ calls' = calls + 1
  /\ UNCHANGED threads

NextFixtures == GenerateTests \/ ConstructFixture

SpecFixtures == InitFixtures /\ [][NextFixtures]_vars

(***************************************************************************)
(* The threaded program: NumThreads threads of one process, each of which  *)
(* constructs one record of a type without record fields.  The coercion of *)
(* the fields touches the new instance alone and is one step; the scan of  *)
(* consolidate_family_tree reads the shared list one member at a step, as  *)
(* the list iterator does (the length is read anew at every step); the     *)
(* append is a step of its own, and so is validate.  No step takes a lock. *)
(***************************************************************************)
Idle == [pc |-> "idle", self |-> 0, i |-> 0, ret |-> 0]

\* the raw inputs the threads choose from: [cls, kw]
ThreadInputs ==
  { [cls |-> "Company", kw |-> CompanyExample],
    [cls |-> "Company", kw |-> With(CompanyExample, "id", StrV("id-2"))],
    [cls |-> "Orbit", kw |-> With(OrbitExample, "eccentricity", FltV(1500))] }

InitThreads ==
  /\ heap = <<>>
  /\ registry = <<>>
  /\ calls = 0
  /\ last = NoCall
  /\ threads = [t \in 1..NumThreads |-> Idle]

\* the state a thread works on: the shared heap and list
ThreadState == [heap |-> heap, reg |-> registry, warns |-> <<>>, log |-> <<>>]

\* cls(**kw) up to the call of consolidate_family_tree: __init__ and the loop over
\* the fields of __post_init__.  Threads are numbered in the order they start.
ThreadBegin(t) ==
  /\ threads[t].pc = "idle"
  /\ t > 1 => threads[t - 1].pc # "idle"
  /\ \E in \in ThreadInputs :
       \E r \in {DeserializeFields(Len(heap) + 1, 1,
                   [ThreadState EXCEPT !.heap =
                      Append(@, [cls |-> in.cls, f |-> Bind(in.cls, in.kw),
                                 at |-> "coerce", n |-> 0])])} :
          /\ heap' = IF r.ok THEN At(Len(heap) + 1, "consolidate", r.st).heap ELSE r.st.heap
          /\ threads' = [threads EXCEPT ![t] =
                           [pc |-> IF r.ok THEN "scan" ELSE "raised",
                            self |-> Len(heap) + 1, i |-> 1, ret |-> 0]]
  /\ UNCHANGED <<registry, calls, last>>

\* one turn of `for existing_obj in all_joe_objs: if self == existing_obj: return`
ThreadScan(t) ==
  /\ threads[t].pc = "scan"
  /\ threads' = [threads EXCEPT ![t] =
        IF threads[t].i > Len(registry) THEN [threads[t] EXCEPT !.pc = "append"]
        ELSE IF ObjEq(heap, threads[t].self, registry[threads[t].i])
             THEN [threads[t] EXCEPT !.pc = "validate", !.ret = registry[threads[t].i]]
             ELSE [threads[t] EXCEPT !.i = threads[t].i + 1]]
  /\ UNCHANGED <<heap, registry, calls, last>>

\* a faulty append that looks through the list once more and leaves it alone when
\* a member is equal to the instance
AppendIfAbsent(h, reg, ref) == IF Matches(h, reg, ref) # {} THEN reg ELSE Append(reg, ref)

\* all_joe_objs.append(self)
AppendSelf(h, reg, ref) == Append(reg, ref)

\* all_joe_objs.append(self); return self
ThreadAppend(t) ==
  /\ threads[t].pc = "append"
  /\ registry' = AppendSelf(heap, registry, threads[t].self)
  /\ threads' = [threads EXCEPT ![t] = [threads[t] EXCEPT !.pc = "validate", !.ret = threads[t].self]]
  /\ UNCHANGED <<heap, calls, last>>

\* self.validate(), the end of __post_init__
ThreadValidate(t) ==
  /\ threads[t].pc = "validate"
  /\ \E r \in {validate(threads[t].self, At(threads[t].self, "validate", ThreadState))} :
       /\ heap' = IF r.ok THEN At(threads[t].self, "done", r.st).heap ELSE r.st.heap
       /\ threads' = [threads EXCEPT ![t] = [threads[t] EXCEPT !.pc = IF r.ok THEN "done" ELSE "raised"]]
  /\ UNCHANGED <<registry, calls, last>>

NextThreads ==
  \E t \in 1..NumThreads :
     ThreadBegin(t) \/ ThreadScan(t) \/ ThreadAppend(t) \/ ThreadValidate(t)

SpecThreads == InitThreads /\ [][NextThreads]_vars

(***************************************************************************)
(* The stepwise program: one thread that makes top-level constructions one *)
(* after the other, the consolidation of the instance built being followed *)
(* call by call.  The thread keeps the stack of the calls of                *)
(* consolidate_family_tree that have not returned: a frame is the instance *)
(* the call is for (ref), the position in its joe_children (n) and the     *)
(* position of its scan in all_joe_objs (i).  The coercion of the fields   *)
(* (with the constructions nested in it) and validate are one step each.   *)
(***************************************************************************)
Frame(ref) == [ref |-> ref, n |-> 1, i |-> 1]
Resting == [pc |-> "idle", self |-> 0, i |-> 0, ret |-> 0, stack |-> <<>>]

\* the raw inputs the thread chooses from: [cls, kw]
StepInputs ==
  { [cls |-> "Bus", kw |-> Example("Bus")],
    [cls |-> "Target", kw |-> Example("Target")],
    [cls |-> "Mission", kw |-> With(MissionExample, "created_by", StrV("id-1"))],
    [cls |-> "Orbit", kw |-> With(OrbitExample, "eccentricity", FltV(1500))],
    [cls |-> "Physics", kw |-> With(Example("Physics"), "start_time", StrV("yesterday"))] }

InitSteps ==
  /\ heap = <<>>
  /\ registry = <<>>
  /\ calls = 0
  /\ last = NoCall
  /\ threads = <<Resting>>

\* the frame of the call that is running, and the fields it goes through
TopFrame == threads[1].stack[Len(threads[1].stack)]
FrameChildren(f) == joe_children(heap[f.ref].cls)
\* a faulty loop that stays on the same child when the call for it has returned
SameChild(n) == n
\* the loop over all_direct_children goes on to the next child
NextChild(n) == n + 1

\* cls(**kw) up to the call of consolidate_family_tree: __init__ and the loop over
\* the fields of __post_init__; a field that fails ends the call
StepBegin ==
  /\ threads[1].pc = "idle" /\ calls < MaxCalls
  /\ \E in \in StepInputs :
       \E r \in {DeserializeFields(Len(heap) + 1, 1,
                   [CallState EXCEPT !.heap =
                      Append(@, [cls |-> in.cls, f |-> Bind(in.cls, in.kw),
                                 at |-> "coerce", n |-> 0])])} :
          /\ heap' = IF r.ok THEN At(Len(heap) + 1, "consolidate", r.st).heap ELSE r.st.heap
          /\ registry' = r.st.reg
          /\ last' = Outcome("construct", in.cls, in.kw, TRec(in.cls), 0, r)
          /\ threads' = <<IF r.ok
                          THEN [Resting EXCEPT !.pc = "consolidate", !.self = Len(heap) + 1,
                                               !.stack = <<Frame(Len(heap) + 1)>>]
                          ELSE Resting>>
          /\ calls' = IF r.ok THEN calls ELSE calls + 1

\* one turn of the loop over all_direct_children: the child, unless it is a str,
\* is asked to consolidate itself
StepChild ==
  /\ threads[1].pc = "consolidate"
  /\ TopFrame.n <= Len(FrameChildren(TopFrame))
  /\ threads' = [threads EXCEPT ![1].stack =
        IF heap[TopFrame.ref].f[FrameChildren(TopFrame)[TopFrame.n]].k = "obj"
        THEN Append(threads[1].stack,
                    Frame(heap[TopFrame.ref].f[FrameChildren(TopFrame)[TopFrame.n]].ref))
        ELSE [threads[1].stack EXCEPT ![Len(threads[1].stack)].n = NextChild(TopFrame.n)]]
  /\ UNCHANGED <<heap, registry, calls, last>>

\* one turn of `for existing_obj in all_joe_objs`, for a member that is not equal
StepScan ==
  /\ threads[1].pc = "consolidate"
  /\ TopFrame.n > Len(FrameChildren(TopFrame))
  /\ TopFrame.i <= Len(registry)
  /\ ~ObjEq(heap, TopFrame.ref, registry[TopFrame.i])
  /\ threads' = [threads EXCEPT ![1].stack[Len(threads[1].stack)].i = TopFrame.i + 1]
  /\ UNCHANGED <<heap, registry, calls, last>>

\* the call that is running returns x: its caller sets the field of the child to x
\* and goes on; with no caller, __post_init__ drops x and goes on to validate
ReturnTo(stack, x) ==
  IF Len(stack) = 1 THEN [threads[1] EXCEPT !.pc = "validate", !.ret = x, !.stack = <<>>]
  ELSE [threads[1] EXCEPT !.stack =
          [SubSeq(stack, 1, Len(stack) - 1) EXCEPT
             ![Len(stack) - 1].n = NextChild(stack[Len(stack) - 1].n)]]
HeapAfterReturn(stack, x) ==
  IF Len(stack) = 1 THEN heap
  ELSE SetField(heap, stack[Len(stack) - 1].ref,
                FrameChildren(stack[Len(stack) - 1])[stack[Len(stack) - 1].n], Obj(x))

\* if self == existing_obj: return existing_obj
StepFound ==
  /\ threads[1].pc = "consolidate"
  /\ TopFrame.n > Len(FrameChildren(TopFrame))
  /\ TopFrame.i <= Len(registry)
  /\ ObjEq(heap, TopFrame.ref, registry[TopFrame.i])
  /\ threads' = <<ReturnTo(threads[1].stack, registry[TopFrame.i])>>
  /\ heap' = HeapAfterReturn(threads[1].stack, registry[TopFrame.i])
  /\ UNCHANGED <<registry, calls, last>>

\* all_joe_objs.append(self); return self
StepAppend ==
  /\ threads[1].pc = "consolidate"
  /\ TopFrame.n > Len(FrameChildren(TopFrame))
  /\ TopFrame.i > Len(registry)
  /\ registry' = Append(registry, TopFrame.ref)
  /\ threads' = <<ReturnTo(threads[1].stack, TopFrame.ref)>>
  /\ heap' = HeapAfterReturn(threads[1].stack, TopFrame.ref)
  /\ UNCHANGED <<calls, last>>

\* self.validate(), the end of __post_init__ and of the call
StepValidate ==
  /\ threads[1].pc = "validate"
  /\ \E r \in {Validated(threads[1].self,
                    validate(threads[1].self, At(threads[1].self, "validate", CallState)))} :
       /\ heap' = r.st.heap
       /\ last' = [Outcome("construct", last.cls, last.input, last.ty, 0, r)
                     EXCEPT !.base = last.base, !.pre = last.pre, !.post = registry]
  /\ threads' = <<Resting>>
  /\ calls' = calls + 1
  /\ UNCHANGED registry

\* the steps of a call that has started
InCall == StepChild \/ StepScan \/ StepFound \/ StepAppend \/ StepValidate

NextSteps == StepBegin \/ InCall

\* the thread is never held up inside a call: a call that can take a step takes it;
\* whether another call is started is the caller's choice
SpecSteps == InitSteps /\ [][NextSteps]_vars /\ WF_vars(InCall)

(***************************************************************************)
(* Properties.                                                             *)
(***************************************************************************)
\* the latest call was a construction, or a decode, and it returned an instance
Returned == last.op \in {"construct", "from_json"} /\ last.ok /\ last.obj # 0
\* the instances the latest call allocated
Allocated == (last.base + 1)..Len(heap)
\* the instance the latest call was building at top level
Top == last.base + 1

\* C1: after a top-level construction completes, no two distinct instances of one
\* record type reachable from the result (through a record field, an optional
\* record field or an element of a list of records) are structurally equal.
C1_Dedup ==
  (last.op = "construct" /\ Returned) =>
     \A a, b \in Reachable(heap, last.obj) :
        (a # b /\ heap[a].cls = heap[b].cls) => ~ObjEq(heap, a, b)

\* a value conforms to a declared type; a text in a record field is the identifier
\* of a record kept elsewhere
RECURSIVE Conforms(_, _, _)
Conforms(h, v, ty) ==
  CASE ty.t = "prim" -> (IF ty.p = "NoneType" THEN v.k = "none" ELSE v.k = ty.p)
    [] ty.t = "enum" -> v.k = "enum" /\ v.enum = ty.e /\ IsLabel(ty.e, v.name)
    [] ty.t = "rec" -> (v.k = "obj" /\ h[v.ref].cls = ty.c) \/ v.k = "str"
    [] ty.t = "list[]" ->
         v.k = "list" /\ \A i \in 1..Len(v.e) : Conforms(h, v.e[i], ty.args[1])
    [] ty.t = "tuple[]" ->
         /\ v.k = "tuple"
         /\ Len(v.e) = Len(ty.args)
         /\ \A i \in 1..Len(v.e) : Conforms(h, v.e[i], ty.args[i])
    [] ty.t = "dict[]" -> v.k = "dict"
    [] ty.t = "union" -> \E i \in 1..Len(ty.args) : Conforms(h, v, ty.args[i])

\* C2: whenever a construction succeeds, every field of the instance conforms to its
\* declared type and every invariant check of its record type holds.
C2_Conforming ==
  (last.op = "construct" /\ Returned) =>
     /\ \A i \in 1..Len(Fields(last.cls)) :
          Conforms(heap, heap[last.obj].f[i], Fields(last.cls)[i].type)
     /\ \A i \in 1..Len(Validators(last.cls)) :
          CheckOutcome(heap, last.obj, Validators(last.cls)[i]) = "pass"

\* C3: construction is all-or-nothing.  A call that returns an instance has brought
\* every instance it built, at any depth, through coercion, consolidation and
\* validation; a call one of whose instances stopped short of that ends in an error
\* and returns no instance.
C3_AllOrNothing ==
  last.op \in {"construct", "from_json"} =>
     /\ last.ok => (last.obj # 0 /\ \A ref \in Allocated : heap[ref].at = "done")
     /\ (\E ref \in Allocated : heap[ref].at # "done") => ~last.ok
     /\ ~last.ok => (last.obj = 0 /\ last.val = None_ /\ last.err.kind # "none")

\* a construction that failed in the validation of a nested record, two levels of
\* instances being left unfinished
C3_Witness ==
  /\ last.op = "construct" /\ ~last.ok /\ last.obj = 0
  /\ Len(heap) > Top
  /\ heap[Top].at = "coerce"
  /\ heap[Len(heap)].at = "validate"
  /\ last.err.kind = "ValidationFailed"

\* an instance whose record fields hold records without record fields of their own
Shallow(h, ref) == \A c \in ChildrenOf(h, ref) : ChildrenOf(h, c) = {}

\* C4: round trip.  For an instance I at most one record-nesting level deep,
\* from_json(to_json(I)) succeeds and yields an instance equal to I (by == or by
\* the encoder's output).
C4_RoundTrip ==
  (last.op = "from_json" /\ Shallow(heap, last.from)) =>
     /\ last.ok /\ last.obj # 0
     /\ ObjEq(heap, last.obj, last.from) \/ json_eq(heap, last.obj, last.from)

\* C5: fail-fast validation.  A check that does not pass is the last check the call
\* executes, the call fails with that check's error, no check runs twice on an
\* instance, and an instance of a record type without checks never stops in validate.
C5_FailFast ==
  last.op = "construct" =>
     /\ \A i \in 1..Len(last.log) : last.log[i].outcome # "pass" =>
          /\ i = Len(last.log)
          /\ ~last.ok
          /\ last.err.kind = "ValidationFailed"
          /\ last.err.varname = <<last.log[i].check>>
     /\ \A i, j \in 1..Len(last.log) :
          (i < j /\ last.log[i].ref = last.log[j].ref) => last.log[i].check # last.log[j].check
     /\ \A ref \in Allocated : Validators(heap[ref].cls) = <<>> => heap[ref].at # "validate"

\* a construction stopped by a failed check while another check of the instance,
\* which would fail too, has not been run
C5_Witness ==
  /\ last.op = "construct" /\ ~last.ok /\ Len(last.log) > 0
  /\ LET e == last.log[Len(last.log)]
     IN  /\ e.outcome = "fail"
         /\ \E n \in 1..Len(Validators(e.cls)) :
              /\ \A i \in 1..Len(last.log) : last.log[i].check # Validators(e.cls)[n]
              /\ CheckOutcome(heap, e.ref, Validators(e.cls)[n]) = "fail"

\* the checks of the latest call, instance by instance, ran in the order of names
RanInOrder(names) ==
  \A i, j \in 1..Len(last.log) :
     (i < j /\ last.log[i].ref = last.log[j].ref) =>
        PosIn(last.log[i].check, names) < PosIn(last.log[j].check, names)

\* the check that stopped the latest call is the first one of names, among those of
\* its record type, that does not pass
FirstFailureOf(names) ==
  last.err.kind = "ValidationFailed" =>
     LET e == last.log[Len(last.log)]
     IN  \A n \in 1..Len(Validators(e.cls)) :
            PosIn(Validators(e.cls)[n], names) < PosIn(e.check, names) =>
               CheckOutcome(heap, e.ref, Validators(e.cls)[n]) = "pass"

\* the checks of every record type, each type's checks in declaration order
AllDeclared ==
  Validators("Orbit") \o Validators("Physics") \o Validators("Propagator") \o Validators("Status")

Built == last.op = "construct" /\ Len(heap) >= Top /\ BindOk(last.cls, last.input)
FieldName(i) == Fields(last.cls)[i].name
FieldType(i) == Fields(last.cls)[i].type
Given(i) == Bind(last.cls, last.input)[i]
Stored(i) == heap[Top].f[i]
\* the coercion of field i was started, every field before it having been coerced
Reached(i) == heap[Top].n >= i - 1
\* the coercion of field i returned
Passed(i) == heap[Top].n >= i
\* the construction ended in the coercion of field i
StoppedAt(i) == ~last.ok /\ heap[Top].at = "coerce" /\ heap[Top].n = i - 1

EnumFields == {i \in 1..Len(Fields(last.cls)) : FieldType(i).t = "enum"}
FloatFields == {i \in 1..Len(Fields(last.cls)) : FieldType(i) = T_float}
TupleFields ==
  {i \in 1..Len(Fields(last.cls)) : FieldType(i).t = "tuple[]" /\ Len(FieldType(i).args) > 1}

\* the construction ended with InvalidEnumValue, naming field i and the text given
RejectedText(i) ==
  /\ StoppedAt(i)
  /\ last.err.kind = "InvalidEnumValue"
  /\ last.err.varname = <<FieldName(i)>>
  /\ last.err.what = Given(i)

EccentricityGiven == KwGet(last.input, "eccentricity")
OrbitWithEccentricity ==
  /\ last.op = "construct" /\ last.cls = "Orbit"
  /\ KwHas(last.input, "eccentricity")
  /\ last.input = With(OrbitExample, "eccentricity", EccentricityGiven)
  /\ EccentricityGiven.k \in {"float", "none"}

\* C10: an Orbit whose other fields are valid is constructed with eccentricity v, a
\* float or null, iff v is null or 0 <= v <= 1, and fails in validate_eccentricity
\* otherwise.
C10_Eccentricity ==
  OrbitWithEccentricity =>
     /\ last.ok <=> \/ EccentricityGiven.k = "none"
                    \/ (0 <= EccentricityGiven.x /\ EccentricityGiven.x <= 1 * FloatScale)
     /\ last.ok => (heap[last.obj].at = "done" /\
                    GetAttr(heap, last.obj, "eccentricity") = EccentricityGiven)
     /\ ~last.ok => /\ last.err.kind = "ValidationFailed"
                    /\ last.err.exc = "AssertionError"
                    /\ last.err.varname = <<"validate_eccentricity">>

\* eccentricity 1.5, rejected by the check
C10_Witness ==
  /\ OrbitWithEccentricity
  /\ EccentricityGiven = FltV(1500)
  /\ ~last.ok /\ last.err.kind = "ValidationFailed"

\* C11: idempotence of coercion.  Coercing a value a field already holds after a
\* successful construction (a primitive, a timestamp, an Enumeration member, a
\* record instance, a coerced list or tuple) against the field's declared type
\* succeeds and returns the value it was given, with no warning, and builds nothing.
C11_Idempotent ==
  last.op = "coerce" =>
     /\ last.ok
     /\ last.val = last.input
     /\ last.warns = <<>>
     /\ Len(heap) = last.base

\* an Enumeration member coerced once more, through the fallback of the engine
C11_Witness ==
  /\ last.op = "coerce" /\ last.ok
  /\ last.input.k = "enum" /\ last.ty.t = "enum"
  /\ last.val = last.input

\* the instances that have come out of __post_init__
Finished == {ref \in 1..Len(heap) : heap[ref].at = "done"}

\* C12: equality oracle.  Two record instances compare equal (==) iff they are of
\* the same record type and their encoder outputs are identical, and two instances
\* with different identifiers are never equal.
C12_EqualityOracle ==
  \A a, b \in Finished :
     /\ ObjEq(heap, a, b) <=> json_eq(heap, a, b)
     /\ GetAttr(heap, a, "id") # GetAttr(heap, b, "id") => ~ObjEq(heap, a, b)

\* C13: the encoder renders a list or mapping field as a nested JSON array or
\* object of the encoded tree, and never as a text that holds serialized JSON.
C13_NestedTree ==
  (last.op = "from_json" /\ last.input.k = "jsonstr") =>
     \A i \in 1..Len(heap[last.from].f) :
        /\ heap[last.from].f[i].k \in {"list", "dict"} =>
              last.input.doc.d[i].val.k = heap[last.from].f[i].k
        /\ last.input.doc.d[i].val.k # "jsonstr"

IntFields == {i \in 1..Len(Fields(last.cls)) : FieldType(i) = T_int}

\* C14: numeric narrowing.  A float given for a field whose only accepted type is
\* int is narrowed: the coercion of the field returns, the field holds an int, one
\* warning about the field was emitted and no error names the field.
C14_Narrowing ==
  Built =>
     \A i \in IntFields : (Given(i).k = "float" /\ Reached(i)) =>
        /\ Passed(i)
        /\ Stored(i).k = "int"
        /\ \E w \in 1..Len(last.warns) :
              last.warns[w] = [varname |-> <<FieldName(i)>>, from |-> "float", to |-> "int"]
        /\ last.err.varname # <<FieldName(i)>>

OptionalFields ==
  {i \in 1..Len(Fields(last.cls)) : is_optional(FieldType(i)) /\ Len(FieldType(i).args) = 2}
\* T, for a field declared Optional[T]
Stripped(i) == IF FieldType(i).args[1] = T_none THEN FieldType(i).args[2] ELSE FieldType(i).args[1]
\* the coercion of what was given for field i, had the field been declared T alone
AsStripped(i) ==
  DeserializeField(Fld(FieldName(i), Stripped(i)), Given(i), decompose_type(Stripped(i)),
                   [heap |-> <<>>, reg |-> <<>>, warns |-> <<>>, log |-> <<>>])

\* C15: for a field declared Optional(T), None is stored as None, and any other
\* value is coerced exactly as for a field declared T alone: the coercion returns
\* when that of T returns, with the same value (an int is widened for Optional
\* float), and raises when that of T raises.
C15_OptionalAsT ==
  Built =>
     \A i \in OptionalFields : Reached(i) =>
        IF Given(i) = None_
        THEN Passed(i) /\ Stored(i) = None_
        ELSE \E r \in {AsStripped(i)} :
                /\ Passed(i) <=> r.ok
                /\ Passed(i) => Stored(i) = r.val

\* the positions of the members of the registry U equal to the instance R
EqualIn(U, R) == {j \in 1..Len(U) : ObjEq(heap, R, U[j])}

PlacesIn(U, ref) == {j \in 1..Len(U) : U[j] = ref}

\* the field i of the instance just consolidated holds what the consolidation of a
\* child returns: a member of the registry the call was given, the earliest of those
\* equal to it, and one that stands before the instance itself
ChildConsolidated(i) ==
  /\ PlacesIn(last.post, heap[last.from].f[i].ref) # {}
  /\ \A j \in PlacesIn(last.post, heap[last.from].f[i].ref) :
        /\ \A m \in 1..(j - 1) : ~ObjEq(heap, last.post[m], heap[last.from].f[i].ref)
        /\ \A r \in PlacesIn(last.post, last.from) : j < r

\* C17: post-order consolidation.  When R has been consolidated, every field of R
\* that holds a record instance, a field declared Optional(Record) included, holds
\* the instance the consolidation of that child returned.
C17_PostOrder ==
  last.op = "consolidate" =>
     \A i \in 1..Len(Fields(last.cls)) :
        heap[last.from].f[i].k = "obj" => ChildConsolidated(i)

\* C18: when the instance a top-level construction built is equal to a member of
\* the registry as it was before the call, the call returns that member (the
\* earliest one) in its place: the same raw input constructed twice yields the same
\* instance.
C18_HandsCanonical ==
  (Returned /\ EqualIn(last.pre, Top) # {}) =>
     last.obj = last.pre[Least(EqualIn(last.pre, Top))]

\* C19: the checks of an instance run before it is consolidated, so that every
\* member of the registry has passed all the invariant checks of its record type,
\* and satisfies them.
C19_CheckedMembers ==
  \A j \in 1..Len(registry) :
     /\ heap[registry[j]].at = "done"
     /\ \A n \in 1..Len(CheckNames(heap[registry[j]].cls)) :
           CheckOutcome(heap, registry[j], CheckNames(heap[registry[j]].cls)[n]) = "pass"

\* no two members of the registry are of one record type with the same encoder output
NoEqualMembers ==
  \A i, j \in 1..Len(registry) : i < j => ~json_eq(heap, registry[i], registry[j])

\* a step leaves the encoder output of every member of the registry as it was
MembersKeepEncoding ==
  \A j \in 1..Len(registry) : EncodedFields(heap', registry[j]) = EncodedFields(heap, registry[j])

\* C20: after any sequence of construction calls, successful or failed, no two
\* members of the registry are structurally equal (same record type and identical
\* encoder output), and no call changes the encoder output of an instance that is
\* already a member of the registry.
C20_UniqueMembers == []NoEqualMembers /\ [][MembersKeepEncoding]_vars

\* two values are the same data at every depth: of one kind and with the same
\* content, two record instances being the same one or of one record type with the
\* same data in every field
RECURSIVE DeepSame(_, _, _)
DeepSame(h, x, y) ==
  IF x.k # y.k THEN FALSE
  ELSE IF x.k = "obj" THEN
       \/ x.ref = y.ref
       \/ /\ h[x.ref].cls = h[y.ref].cls
          /\ \A i \in 1..Len(h[x.ref].f) : DeepSame(h, h[x.ref].f[i], h[y.ref].f[i])
  ELSE IF x.k \in {"list", "tuple"} THEN
       /\ Len(x.e) = Len(y.e)
       /\ \A i \in 1..Len(x.e) : DeepSame(h, x.e[i], y.e[i])
  ELSE IF x.k = "dict" THEN
       /\ Len(x.d) = Len(y.d)
       /\ \A i \in 1..Len(x.d) : \E j \in 1..Len(y.d) :
            DeepSame(h, x.d[i].key, y.d[j].key) /\ DeepSame(h, x.d[i].val, y.d[j].val)
  ELSE x = y

\* the latest call consolidated the instance it built at top level
TopConsolidated ==
  /\ last.op \in {"construct", "from_json"}
  /\ Len(heap) >= Top
  /\ heap[Top].at \in {"validate", "done"}

\* C21: consolidation preserves content.  The member of the registry that the
\* consolidation of an instance R yields in place of R holds the same data as R at
\* every depth: for a call of consolidate_family_tree, what it returned; for a
\* construction, every member of the registry the instance built was found equal to.
C21_SameContent ==
  /\ last.op = "consolidate" => DeepSame(heap, Obj(last.from), last.val)
  /\ TopConsolidated =>
        \A j \in EqualIn(last.pre, Top) : DeepSame(heap, Obj(Top), Obj(last.pre[j]))

\* the value x on the heap h1 and the value y on the heap h2 are the same data at
\* every depth
RECURSIVE SameGraph(_, _, _, _)
SameGraph(h1, x, h2, y) ==
  IF x.k # y.k THEN FALSE
  ELSE IF x.k = "obj" THEN
       /\ h1[x.ref].cls = h2[y.ref].cls
       /\ \A i \in 1..Len(h1[x.ref].f) : SameGraph(h1, h1[x.ref].f[i], h2, h2[y.ref].f[i])
  ELSE IF x.k \in {"list", "tuple"} THEN
       /\ Len(x.e) = Len(y.e)
       /\ \A i \in 1..Len(x.e) : SameGraph(h1, x.e[i], h2, y.e[i])
  ELSE IF x.k = "dict" THEN
       /\ Len(x.d) = Len(y.d)
       /\ \A i \in 1..Len(x.d) : \E j \in 1..Len(y.d) :
            SameGraph(h1, x.d[i].key, h2, y.d[j].key) /\ SameGraph(h1, x.d[i].val, h2, y.d[j].val)
  ELSE x = y

\* the same construction in a process that has made no call yet
InFreshProcess ==
  Construct(last.cls, last.input, [heap |-> <<>>, reg |-> <<>>, warns |-> <<>>, log |-> <<>>])

\* C22: the result of a top-level construction depends on its raw input alone.
\* Whatever calls the process made before, the construction succeeds when it
\* succeeds in a fresh process, and the graph it returns holds the same data at
\* every depth as the graph returned there.
C22_InputAlone ==
  last.op = "construct" =>
     \E r \in {InFreshProcess} :
        /\ last.ok <=> r.ok
        /\ last.ok => SameGraph(heap, last.val, r.st.heap, r.val)

\* C23: a top-level construction that fails, in a coercion or in a check, leaves
\* the registry as it was before the call: no instance the failed call built is a
\* member of it.
C23_FailureLeavesRegistry ==
  (last.op \in {"construct", "from_json"} /\ ~last.ok) =>
     /\ registry = last.pre
     /\ \A j \in 1..Len(registry) : registry[j] \notin Allocated

\* thread t has left consolidate_family_tree
Consolidated(t) == threads[t].pc \in {"validate", "done", "raised"} /\ threads[t].ret # 0

\* C24: the registry has no locking.  A thread whose scan ended without a match
\* appends its instance whatever the other threads did since the scan, nothing
\* looking at the list again at the append; a thread whose scan found a member
\* returns that member, which is equal to its instance.  Two threads given equal
\* records can therefore both append (the state of C24_Witness).
C24_NoLocking ==
  \A t \in DOMAIN threads : Consolidated(t) =>
     IF threads[t].ret = threads[t].self
     THEN PlacesIn(registry, threads[t].self) # {}
     ELSE /\ PlacesIn(registry, threads[t].ret) # {}
          /\ PlacesIn(registry, threads[t].self) = {}
          /\ ObjEq(heap, threads[t].self, threads[t].ret)

\* two threads have constructed equal records, both constructions have returned,
\* and the registry holds both instances
C24_Witness ==
  \E t, u \in DOMAIN threads :
     /\ t # u
     /\ threads[t].pc = "done" /\ threads[u].pc = "done"
     /\ ObjEq(heap, threads[t].self, threads[u].self)
     /\ PlacesIn(registry, threads[t].self) # {}
     /\ PlacesIn(registry, threads[u].self) # {}

\* the fields that do not accept text and whose accepted type is not a datetime
\* alone or an Enum alone
NonTextFields ==
  {i \in 1..Len(Fields(last.cls)) :
     LET d == decompose_type(FieldType(i))
     IN  /\ ~(d.ext = "none" /\ InTypes(T_str, d.types))
         /\ ~(d.ext = "none" /\ Len(d.types) = 1
                /\ (d.types[1] = T_datetime \/ d.types[1].t = "enum"))}
\* those of them that are declared as a list, a tuple or a dict
ContainerFields == {i \in NonTextFields : decompose_type(FieldType(i)).ext # "none"}
\* text given for field i went through the coercion unchanged and is what the
\* instance holds when the construction has ended, consolidation included
KeptAsText(i) ==
  /\ Passed(i)
  /\ Stored(i) = Given(i)
  /\ last.err.varname # <<FieldName(i)>>
  /\ \A w \in 1..Len(last.warns) : last.warns[w].varname # <<FieldName(i)>>

KeyCoerced(j) ==
  DeserializeField(Fld("field", last.ty.args[1]), last.input.d[j].key,
                   decompose_type(last.ty.args[1]), CallState)
ValueCoerced(j) ==
  DeserializeField(Fld("field", last.ty.args[2]), last.input.d[j].val,
                   decompose_type(last.ty.args[2]), CallState)
\* a non-empty mapping was given for a field declared dict[K, V]
MappingGiven ==
  /\ last.op = "coerce" /\ last.ty.t = "dict[]"
  /\ last.input.k = "dict" /\ Len(last.input.d) > 0

\* C26: for a field declared dict[K, V] and a non-empty mapping, the coercion returns
\* whenever every key coerces against K and every value against V, and its result maps
\* each coerced key to its coerced value, with as many entries as the input; for a
\* field declared dict, without key and value types, the mapping is returned unchanged.
C26_Mapping ==
  /\ (MappingGiven /\ \A j \in 1..Len(last.input.d) : KeyCoerced(j).ok /\ ValueCoerced(j).ok) =>
        /\ last.ok /\ last.val.k = "dict"
        /\ Len(last.val.d) = Len(last.input.d)
        /\ \A j \in 1..Len(last.input.d) :
              last.val.d[j] = Item(KeyCoerced(j).val, ValueCoerced(j).val)
  /\ (last.op = "coerce" /\ last.ty = T_dict /\ last.input.k = "dict") =>
        last.ok /\ last.val = last.input

\* the accepted types of the field the latest coercion was for
Accepted == decompose_type(last.ty).types
\* the value given falls through every case of the match before case _
FallsThrough(v, expected) ==
  /\ ~(v.k = "none" /\ InTypes(T_none, expected))
  /\ ~IsInt(v) /\ v.k # "float" /\ ~IsStr(v)
  /\ ~(v.k = "list" /\ InTypes(T_list, expected))
  /\ v.k \notin {"dict", "obj"}
  /\ ~(v.k = "datetime" /\ InTypes(T_datetime, expected))
\* the latest coercion resolved its value through case _
ThroughFallback ==
  /\ last.op = "coerce" /\ decompose_type(last.ty).ext = "none"
  /\ FallsThrough(last.input, Accepted)
\* the coercion of the value against alternative i alone
Attempt(i) == TryType(<<"field">>, last.input, decompose_type(Accepted[i]), CallState)
Succeeding == {i \in 1..Len(Accepted) : Attempt(i).ok}

\* C27: a value resolved through the fallback gets the result of the first accepted
\* type, in declared order, whose attempt succeeds; when every attempt fails, one
\* TypeMismatch is raised that carries, for each accepted type in declared order, the
\* type and what its attempt raised.
C27_Fallback ==
  ThroughFallback =>
     IF Succeeding # {}
     THEN last.ok /\ last.val = Attempt(Least(Succeeding)).val
     ELSE /\ ~last.ok
          /\ last.err.kind = "TypeMismatch" /\ last.err.exc = "JourneyUserInputException"
          /\ last.err.varname = <<"field">> /\ last.err.what = last.input
          /\ Len(last.err.tried) = Len(Accepted)
          /\ \A i \in 1..Len(Accepted) :
                last.err.tried[i] = [type |-> Accepted[i], err |-> Attempt(i).err]

\* a tuple of three floats given for a field declared Union[list[float],
\* tuple[int, int], datetime]: no alternative takes it, and the error raised carries
\* three entries
C27_Witness ==
  /\ ThroughFallback /\ last.ty = UnionOfThree /\ last.input.k = "tuple"
  /\ ~last.ok /\ Len(last.err.tried) = 3

\* the latest coercion was given a record instance the process holds
InstanceGiven == last.op = "coerce" /\ last.input.k = "obj"
\* the record type of that instance is one of the accepted types of the field
OfAcceptedType == InTypes(TRec(heap[last.input.ref].cls), Accepted)

\* C28: a record instance given for a field is taken, unchanged, only if its record
\* type is one of the accepted types of the field; an instance of another record
\* type is rejected with a TypeMismatch and is not what the coercion returns.
C28_InstanceOfAcceptedType ==
  (InstanceGiven /\ decompose_type(last.ty).ext = "none") =>
     IF OfAcceptedType
     THEN last.ok /\ last.val = last.input
     ELSE ~last.ok /\ last.err.kind = "TypeMismatch"

\* the number of representatives of a field: None for a nullable field, and then
\* every member of an Enum field, or else the declared example
Representatives(ty) ==
  Len(NoneFirst(ty)) +
  (IF ExpectedType(ty).t = "enum" THEN Len(EnumMembers(ExpectedType(ty).e)) ELSE 1)
RECURSIVE Combinations(_, _)
Combinations(c, j) ==
  IF j > Len(Fields(c)) THEN 1 ELSE Representatives(Fields(c)[j].type) * Combinations(c, j + 1)
\* the latest call constructed the record from raw fixture last.from
FromFixture == last.op = "construct" /\ last.from > 0 /\ Len(heap) >= Top
\* the pre-typed fixtures of the record type, as a process that made no call gets them
PreTyped ==
  get_deserialized_tests(last.cls, [heap |-> <<>>, reg |-> <<>>, warns |-> <<>>, log |-> <<>>])

\* C29: the raw and the pre-typed fixtures of a record type are as many as the
\* combinations of the representatives of its fields, and correspond position by
\* position: each field value of pre-typed fixture k is the typed form of the value
\* in raw fixture k, that is what the construction of the record from raw fixture k
\* stores in the field (a datetime for a timestamp text, the member for an Enum value,
\* the constructed record for a nested record).
C29_Fixtures ==
  /\ last.op = "fixtures" =>
        /\ last.ok
        /\ Len(last.input.e) = Combinations(last.cls, 1)
        /\ Len(last.val.e) = Len(last.input.e)
  /\ FromFixture =>
        \E d \in {PreTyped} : \A j \in 1..Len(Fields(last.cls)) :
           Passed(j) => SameGraph(heap, Stored(j), d.st.heap, d.val.e[last.from].d[j].val)

\* the instances an instance holds, directly or through other instances
Below(ref) == ReachFrom(heap, ChildrenOf(heap, ref), Len(heap))
\* no instance is reachable from itself
Acyclic == \A ref \in 1..Len(heap) : ref \notin Below(ref)
\* a top-level construction is under way; the thread is between two calls
Running == threads[1].pc # "idle"
AtRest == threads[1].pc = "idle"

\* C30: a top-level construction terminates (once started, the thread comes to rest,
\* the call having returned or raised, the repeated consolidation of the children by
\* each ancestor included), and at no step of any sequence of constructions is an
\* instance reachable from itself through the records its fields hold.
C30_TerminatesAcyclic == []Acyclic /\ (Running ~> AtRest)

\* a second construction of a Bus has returned: the consolidation went through the
\* satellite, its mission and the company of the mission, which the constructions
\* nested in the coercion had consolidated already, and found every record in the
\* registry
C30_Witness ==
  /\ AtRest /\ calls = 2 /\ last.ok /\ last.cls = "Bus"
  /\ Len(last.pre) > 0 /\ registry = last.pre
  /\ Below(last.obj) # {}

====
